---- MODULE Spec2Model ----
(***************************************************************************)
(* ChainViz: the mempool endpoint pool.                                    *)
(*                                                                         *)
(* MempoolEndpointState (endpoint_registry.py), MempoolEndpointRouter      *)
(* (router.py) and MempoolDataSource._perform_request (multiplexer.py).    *)
(*                                                                         *)
(* Time is counted in whole seconds.  Timestamps are kept relative to the *)
(* current instant: cooldown_until holds the seconds that remain until     *)
(* the cooldown ends (0 when it is None or has passed) and                 *)
(* last_adjustment holds the seconds since the last adjustment, capped at  *)
(* AdjustInterval (its value too when it is None).  Tick lets one second   *)
(* pass.                                                                   *)
(***************************************************************************)
EXTENDS Integers, Sequences, FiniteSets, TLC

VARIABLES
    endpoints,          \* name -> MempoolEndpointState
    global_semaphore,   \* free permits of MempoolDataSource._global_semaphore
    active_rr_index,    \* MempoolEndpointRouter._active_rr_index
    pc,                 \* call -> where the call stands in _perform_request
    call_endpoint,      \* call -> the endpoint argument of _perform_request
    slot_acquired,      \* call -> the local slot_acquired of _perform_request
    result,             \* call -> the value the call's _perform_request is
                        \*   returning ("unset" outside a return)
    trail,              \* name -> the last AdjustWindow responses recorded
                        \*   on the endpoint, each with the limit before
                        \*   and after it
    feed,               \* the responses an endpoint is fed: "slow", "fast"
                        \*   or "any"
    run_pool,           \* the pool of the last choose call
    run_picked,         \* what the last choose calls returned while the
                        \*   pool stayed run_pool, at most Len(run_pool)
    fo_pc,              \* _request_with_failover: "idle", "loop" (at the
                        \*   head of the while loop), "perform" (awaiting
                        \*   _perform_request) or "done" (returned)
    attempts,           \* _request_with_failover: attempts
    attempt_timeout,    \* _request_with_failover: attempt_timeout
    fo_result,          \* what _request_with_failover returned
    now,                \* seconds since request_started
    performs,           \* _perform_request calls the request has made
    got_body,           \* one of them has returned a body
    http_outcome,       \* call -> what the call's client.get came to
                        \*   ("unset" before it ends and after the return)
    cache,              \* txid -> the value Redis holds under tx:{txid}
    ft,                 \* the fetch_transaction call under way
    bt,                 \* the fetch_transactions_batch call under way
    addr_cache,         \* the value Redis holds under addr_history:{address}
    fh,                 \* the fetch_address_history call under way
    ga,                 \* the get_address_txids call under way
    tr,                 \* the TraceOrchestrator of one trace_utxo_backward call
    api,                \* the request the API is serving
    pk,                 \* the detect_peel_chain call under way
    cl,                 \* one AddressClusterer
    cj,                 \* the detect_coinjoin call under way
    sm                  \* the get_address_summary call under way and
                        \*   MempoolDataSource._compact_summary_penalty

\* The calls of _perform_request and the responses recorded.
callVars == <<global_semaphore, pc, call_endpoint, slot_acquired, result,
              trail, feed>>

\* The run of choose calls on an unchanged pool.
routerVars == <<run_pool, run_picked>>

\* One logical request in _request_with_failover.
failoverVars == <<fo_pc, attempts, attempt_timeout, fo_result, now, performs,
                  got_body>>

\* _perform_request with the outcome of its HTTP call on record.
performVars == <<http_outcome>>

\* BlockchainDataService: the transaction cache and the calls on it.
dataVars == <<cache, ft, bt>>

\* fetch_address_history and get_address_txids for one address.
addressVars == <<addr_cache, fh, ga>>

\* The state of the layers above the pool and of the observers of it.
\* One TraceOrchestrator and its trace_utxo_backward call.
traceVars == <<tr>>

\* The API handlers and the heuristics, one call at a time.
upperVars == <<api, pk, cl, cj, sm>>

laterVars == <<performVars, dataVars, addressVars, traceVars, upperVars>>

\* The endpoint pool.
poolVars == <<endpoints, active_rr_index, callVars>>

\* What the endpoint pool leaves alone.
extVars == <<routerVars, failoverVars, laterVars>>

\* What the router's run, the logical request and the observed
\* _perform_request leave alone of it.
beyondRouter == <<failoverVars, laterVars>>
beyondFailover == <<routerVars, laterVars>>
beyondPerform ==
    <<routerVars, failoverVars, dataVars, addressVars, traceVars, upperVars>>
beyondData ==
    <<poolVars, routerVars, failoverVars, performVars, addressVars, traceVars,
      upperVars>>
beyondAddress ==
    <<poolVars, routerVars, failoverVars, performVars, dataVars, traceVars,
      upperVars>>
beyondTrace ==
    <<poolVars, routerVars, failoverVars, performVars, dataVars, addressVars,
      upperVars>>
belowUpper ==
    <<poolVars, routerVars, failoverVars, performVars, dataVars, addressVars,
      traceVars>>
beyondApi == <<belowUpper, pk, cl, cj, sm>>
beyondPeel == <<belowUpper, api, cl, cj, sm>>
beyondCluster == <<belowUpper, api, pk, cj, sm>>
beyondCoinJoin == <<belowUpper, api, pk, cl, sm>>
beyondSummary == <<belowUpper, api, pk, cl, cj>>

vars == <<endpoints, active_rr_index, callVars, extVars>>

----------------------------------------------------------------------------
(* Settings.  The values are scaled down; the code reads them from          *)
(* app.config.settings.                                                     *)

AdjustWindow == 3           \* mempool_concurrency_adjust_window
SuccessTargetPct == 30      \* mempool_concurrency_success_target, in percent
LatencyTarget == 1          \* mempool_concurrency_latency_target
FailureThreshold == 2       \* mempool_concurrency_failure_threshold
FailureCooldown == 1        \* mempool_failure_cooldown_seconds
DisableCooldown == 3        \* timedelta(days=1), in the model's seconds
GlobalMaxInflight == 2      \* mempool_global_max_inflight
EndpointMinConcurrent == 1  \* mempool_endpoint_min_concurrent
EndpointMaxConcurrent == 3  \* mempool_endpoint_max_concurrent
MaxRequests == 3            \* requests started in one run of the pool
HardRequestTimeout == 2     \* mempool_hard_request_timeout
RequestTotalTimeout == 2    \* mempool_request_total_timeout
MaxReplayed == 2            \* endpoints with responses before the router is watched
MaxRecords == 6             \* responses recorded on an endpoint fed any responses
ScenarioRecords == 14       \* responses recorded on an endpoint fed slow, then fast ones
LocalInitialConcurrent == 1       \* mempool_local_initial_concurrent
AdditionalInitialConcurrent == 2  \* mempool_additional_initial_concurrent

AdjustInterval == 1         \* _maybe_adjust_locked: at most once per second
TopN == 5                   \* choose: _top_n_available(n=5)
MaxAttempts == 10           \* _request_with_failover: max_attempts = 10

FastLatency == LatencyTarget
SlowLatency == 3 * LatencyTarget

Names == {"e0", "e1"}
Calls == {"c1", "c2", "c3"}
NoEndpoint == "none"

Max(a, b) == IF a >= b THEN a ELSE b
Min(a, b) == IF a <= b THEN a ELSE b

RECURSIVE SumSeq(_)
SumSeq(q) == IF q = <<>> THEN 0 ELSE Head(q) + SumSeq(Tail(q))

RECURSIVE SumOver(_, _)
SumOver(f, S) ==
    IF S = {} THEN 0
    ELSE LET x == CHOOSE y \in S : TRUE IN f[x] + SumOver(f, S \ {x})

----------------------------------------------------------------------------
(* Endpoint registry                                                        *)

\* build_mempool_endpoints: one local endpoint (priority 0), then the
\* additional tier (1), then the public tier (2).  Two endpoints are modelled.
Priority(name) == CASE name = "e0" -> 0 [] name = "e1" -> 1 [] OTHER -> 2

\* The endpoints build_mempool_endpoints can build, by priority, then
\* base_url.
AllEndpoints == <<"e0", "e1", "e2", "e3", "e4", "e5">>

\* MempoolEndpointRouter.__init__: the endpoints by priority, then base_url.
RouterOrder(eps) == SelectSeq(AllEndpoints, LAMBDA name : name \in DOMAIN eps)

\* build_mempool_endpoints: initial_concurrent of the endpoint's tier
TierInitial(name) ==
    IF Priority(name) = 0 THEN LocalInitialConcurrent
    ELSE AdditionalInitialConcurrent

\* The MempoolEndpointConfig of an endpoint.  build_mempool_endpoints keeps
\* only the endpoints with enabled = True.
Config(name, initial) ==
    LET tier_max == EndpointMaxConcurrent + Priority(name)
        max_ceiling == Min(tier_max, EndpointMaxConcurrent)
    IN  [ priority |-> Priority(name),
          enabled |-> TRUE,
          min_concurrent |-> EndpointMinConcurrent,
          max_concurrent |-> tier_max,
          max_concurrent_ceiling |-> max_ceiling,
          initial_concurrent |-> Min(max_ceiling, initial) ]

\* MempoolEndpointState.__post_init__
PostInit(config) ==
    LET min_concurrency ==
            Max(EndpointMinConcurrent,
                Min(config.min_concurrent, config.max_concurrent_ceiling))
        ceiling ==
            Min(EndpointMaxConcurrent,
                Min(config.max_concurrent_ceiling, config.max_concurrent))
        max_concurrency == Max(min_concurrency, ceiling)
        initial ==
            Max(min_concurrency, Min(config.initial_concurrent, max_concurrency))
    IN  [ config |-> config,
          consecutive_failures |-> 0,
          consecutive_successes |-> 0,
          total_requests |-> 0,
          active_slots |-> 0,
          concurrency_limit |-> initial,
          min_concurrency |-> min_concurrency,
          max_concurrency |-> max_concurrency,
          total_latency |-> 0,
          total_successes |-> 0,
          total_failures |-> 0,
          cooldown_until |-> 0,
          recent_outcomes |-> <<>>,
          recent_latencies |-> <<>>,
          last_adjustment |-> AdjustInterval ]

\* total_requests is total_successes + total_failures: both record_success
\* and record_failure add one to it and to one of the two.
TotalRequests(s) == s.total_requests

\* _cooldown_remaining
CooldownRemaining(s) == Max(0, s.cooldown_until)

\* An is_available that does not look at the cooldown.
IsAvailable_NoCooldown(s) == s.config.enabled /\ s.concurrency_limit > 0

\* is_available
IsAvailable(s) ==
    IF ~s.config.enabled THEN FALSE
    ELSE IF s.concurrency_limit <= 0 THEN FALSE
    ELSE CooldownRemaining(s) = 0

\* deque(maxlen=adjust_window).append
DequeAppend(q, x) ==
    IF Len(q) < AdjustWindow THEN Append(q, x) ELSE Append(Tail(q), x)

Successes(outcomes) == Cardinality({i \in DOMAIN outcomes : outcomes[i]})

\* success_rate >= target_success, on a window of outcomes
SuccessRateOk(outcomes) ==
    Successes(outcomes) * 100 >= SuccessTargetPct * Len(outcomes)

\* avg_latency <= latency_target, on a window of latencies
LatencyOk(latencies) == SumSeq(latencies) <= LatencyTarget * Len(latencies)

\* A window that counts as full from the first response on.
WindowFull_Always(s) == TRUE

\* _maybe_adjust_locked: not (window < adjust_window)
WindowFull(s) == Len(s.recent_outcomes) >= AdjustWindow

\* A floor of 0 in the place of min_concurrency.
AboveFloor_Zero(s) == s.concurrency_limit > 0

\* _maybe_adjust_locked: self.concurrency_limit > self.min_concurrency
AboveFloor(s) == s.concurrency_limit > s.min_concurrency

\* _maybe_adjust_locked
MaybeAdjustLocked(s, decrease_only) ==
    IF s.concurrency_limit <= 0 THEN s
    ELSE IF ~WindowFull(s) THEN s
    ELSE IF s.last_adjustment < AdjustInterval THEN s
    ELSE
        LET adjust_down ==
                \/ ~SuccessRateOk(s.recent_outcomes)
                \/ ~LatencyOk(s.recent_latencies)
                \/ s.consecutive_failures >= FailureThreshold
            adjusted(limit) ==
                [s EXCEPT !.concurrency_limit = limit,
                          !.last_adjustment = 0,
                          !.recent_outcomes = <<>>,
                          !.recent_latencies = <<>>]
        IN  IF adjust_down /\ AboveFloor(s)
            THEN adjusted(s.concurrency_limit - 1)
            ELSE IF /\ ~decrease_only
                    /\ SuccessRateOk(s.recent_outcomes)
                    /\ LatencyOk(s.recent_latencies)
                    /\ s.concurrency_limit < s.max_concurrency
            THEN adjusted(s.concurrency_limit + 1)
            ELSE s

\* A record_success that leaves the run of failures standing.
RecordSuccess_KeepsFailures(s, latency) ==
    MaybeAdjustLocked(
        [s EXCEPT !.total_requests = @ + 1,
                  !.total_successes = @ + 1,
                  !.total_latency = @ + latency,
                  !.consecutive_successes = @ + 1,
                  !.cooldown_until = 0,
                  !.recent_outcomes = DequeAppend(@, TRUE),
                  !.recent_latencies = DequeAppend(@, latency)],
        FALSE)

\* record_success
RecordSuccess(s, latency) ==
    MaybeAdjustLocked(
        [s EXCEPT !.total_requests = @ + 1,
                  !.total_successes = @ + 1,
                  !.total_latency = @ + latency,
                  !.consecutive_failures = 0,
                  !.consecutive_successes = @ + 1,
                  !.cooldown_until = 0,
                  !.recent_outcomes = DequeAppend(@, TRUE),
                  !.recent_latencies = DequeAppend(@, latency)],
        FALSE)

\* An adjustment after a failure made as after a success.
FailureAdjust_AsSuccess(s) == MaybeAdjustLocked(s, FALSE)

\* record_failure: self._maybe_adjust_locked(decrease_only=True)
FailureAdjust(s) == MaybeAdjustLocked(s, TRUE)

\* record_failure
RecordFailure(s, latency) ==
    LET failed ==
            [s EXCEPT !.total_requests = @ + 1,
                      !.total_failures = @ + 1,
                      !.total_latency = @ + latency,
                      !.consecutive_failures = @ + 1,
                      !.consecutive_successes = 0,
                      !.cooldown_until = FailureCooldown,
                      !.recent_outcomes = DequeAppend(@, FALSE),
                      !.recent_latencies = DequeAppend(@, latency)]
        disable == failed.consecutive_failures >= FailureThreshold
        limited ==
            IF disable
            THEN [failed EXCEPT !.concurrency_limit = 0,
                                !.cooldown_until = DisableCooldown]
            ELSE failed
        adjusted == FailureAdjust(limited)
    IN  IF disable /\ s.config.priority = 0
        THEN [adjusted EXCEPT !.cooldown_until = 0]
        ELSE adjusted

\* A turn of acquire_slot that grants a slot while active_slots equals the
\* limit.
AcquireSlotTurn_OneTooMany(s) ==
    IF ~s.config.enabled THEN "raise"
    ELSE IF CooldownRemaining(s) > 0 THEN "sleep"
    ELSE IF s.concurrency_limit <= 0 THEN "raise"
    ELSE IF s.active_slots <= s.concurrency_limit THEN "grant"
    ELSE "sleep"

\* A turn of acquire_slot that keeps waiting on an endpoint whose limit is 0
\* instead of raising.
AcquireSlotTurn_NeverRefuses(s) ==
    IF ~s.config.enabled THEN "raise"
    ELSE IF CooldownRemaining(s) > 0 THEN "sleep"
    ELSE IF s.concurrency_limit <= 0 THEN "sleep"
    ELSE IF s.active_slots < s.concurrency_limit THEN "grant"
    ELSE "sleep"

\* acquire_slot, one turn of its loop under the lock: the slot is granted,
\* RuntimeError is raised, or the caller sleeps and tries again.
AcquireSlotTurn(s) ==
    IF ~s.config.enabled THEN "raise"
    ELSE IF CooldownRemaining(s) > 0 THEN "sleep"
    ELSE IF s.concurrency_limit <= 0 THEN "raise"
    ELSE IF s.active_slots < s.concurrency_limit THEN "grant"
    ELSE "sleep"

\* acquire_slot: self.active_slots += 1
TakeSlot(s) == [s EXCEPT !.active_slots = @ + 1]

\* A release_slot that gives nothing back.
ReleaseSlot_Kept(s) == s

\* release_slot
ReleaseSlot(s) == [s EXCEPT !.active_slots = Max(0, @ - 1)]

\* One second passes.
Elapse(s) ==
    [s EXCEPT !.cooldown_until = Max(0, @ - 1),
              !.last_adjustment = Min(AdjustInterval, @ + 1)]

----------------------------------------------------------------------------
(* Router                                                                   *)

\* _score_endpoint, compared as Python compares the tuples
\* (-success_rate, avg_latency, -concurrency_limit, total_failures).
\* success_rate is 0.0 without requests, avg_latency is inf without successes.
SuccessRateCmp(a, b) ==     \* -1: a's rate is higher, 1: lower, 0: equal
    LET an == IF TotalRequests(a) = 0 THEN 0 ELSE a.total_successes
        ad == IF TotalRequests(a) = 0 THEN 1 ELSE TotalRequests(a)
        bn == IF TotalRequests(b) = 0 THEN 0 ELSE b.total_successes
        bd == IF TotalRequests(b) = 0 THEN 1 ELSE TotalRequests(b)
    IN  IF an * bd > bn * ad THEN -1 ELSE IF an * bd < bn * ad THEN 1 ELSE 0

AvgLatencyCmp(a, b) ==      \* -1: a's average is lower, 1: higher, 0: equal
    IF a.total_successes = 0
    THEN IF b.total_successes = 0 THEN 0 ELSE 1
    ELSE IF b.total_successes = 0 THEN -1
    ELSE LET l == a.total_latency * b.total_successes
             r == b.total_latency * a.total_successes
         IN  IF l < r THEN -1 ELSE IF l > r THEN 1 ELSE 0

ScoreLess(a, b) ==
    IF SuccessRateCmp(a, b) # 0 THEN SuccessRateCmp(a, b) < 0
    ELSE IF AvgLatencyCmp(a, b) # 0 THEN AvgLatencyCmp(a, b) < 0
    ELSE IF a.concurrency_limit # b.concurrency_limit
         THEN a.concurrency_limit > b.concurrency_limit
    ELSE a.total_failures < b.total_failures

\* list.sort(key=...): stable, an element stays behind the equal ones before it
RECURSIVE InsertByScore(_, _, _)
InsertByScore(eps, name, sorted) ==
    IF sorted = <<>> THEN <<name>>
    ELSE IF ScoreLess(eps[name], eps[Head(sorted)]) THEN <<name>> \o sorted
    ELSE <<Head(sorted)>> \o InsertByScore(eps, name, Tail(sorted))

RECURSIVE SortByScore(_, _)
SortByScore(eps, names) ==
    IF names = <<>> THEN <<>>
    ELSE InsertByScore(eps, names[Len(names)],
                       SortByScore(eps, SubSeq(names, 1, Len(names) - 1)))

\* _top_n_available
TopNAvailable(eps, n, min_priority) ==
    LET candidates ==
            SelectSeq(RouterOrder(eps),
                      LAMBDA name : /\ eps[name].config.priority >= min_priority
                                    /\ IsAvailable(eps[name]))
        ranked == SortByScore(eps, candidates)
    IN  SubSeq(ranked, 1, Min(Len(ranked), Max(1, n)))

\* A choose that leaves the rotation counter where it found it.
Choose_NoAdvance(eps, rr, min_priority) ==
    LET pool == TopNAvailable(eps, TopN, min_priority)
    IN  IF pool = <<>>
        THEN [endpoint |-> NoEndpoint, rr |-> rr]
        ELSE LET idx == rr % Len(pool)
             IN  [endpoint |-> pool[idx + 1], rr |-> idx]

\* A choose whose rotation counter counts the calls, without wrapping.
Choose_Counting(eps, rr, min_priority) ==
    LET pool == TopNAvailable(eps, TopN, min_priority)
    IN  IF pool = <<>>
        THEN [endpoint |-> NoEndpoint, rr |-> rr]
        ELSE LET idx == rr % Len(pool)
             IN  [endpoint |-> pool[idx + 1], rr |-> rr + 1]

\* choose: the endpoint it returns (NoEndpoint for None) and the new
\* _active_rr_index
Choose(eps, rr, min_priority) ==
    LET pool == TopNAvailable(eps, TopN, min_priority)
    IN  IF pool = <<>>
        THEN [endpoint |-> NoEndpoint, rr |-> rr]
        ELSE LET idx == rr % Len(pool)
             IN  [endpoint |-> pool[idx + 1], rr |-> (idx + 1) % Len(pool)]

----------------------------------------------------------------------------
(* MempoolDataSource: _perform_request and its callers                      *)

HttpLatencies == {FastLatency, SlowLatency}

\* What client.get(path) under asyncio.wait_for comes to: a status code
\* ("201" stands for the 2xx codes other than 200 and 204, "500" for the
\* codes raise_for_status rejects other than 404),
\* "timeout" (asyncio.TimeoutError), "error" (any other exception of the
\* call) or "decode" (status 200 with a body response.json() rejects).
HttpOutcomes ==
    {"200", "201", "204", "404", "500", "timeout", "error", "decode"}

\* A classification that counts a 404 as a failure.
Classify_NotFoundFails(outcome) ==
    CASE outcome \in {"200", "201"} -> [success |-> TRUE, returns |-> "body"]
      [] outcome = "204" -> [success |-> TRUE, returns |-> "none"]
      [] OTHER -> [success |-> FALSE, returns |-> "none"]

\* _perform_request, the try block around client.get: what is recorded on
\* the endpoint and what is returned.
Classify(outcome) ==
    CASE outcome = "200" -> [success |-> TRUE, returns |-> "body"]
      [] outcome = "201" -> [success |-> TRUE, returns |-> "body"]
      [] outcome = "204" -> [success |-> TRUE, returns |-> "none"]
      [] outcome = "404" -> [success |-> TRUE, returns |-> "none"]
      [] OTHER -> [success |-> FALSE, returns |-> "none"]

\* A semaphore that never makes a caller wait.
PermitFree_Always(permits) == TRUE

\* asyncio.Semaphore.acquire returns only while a permit is free
PermitFree(permits) == permits > 0

\* Requests started so far: the recorded ones and the ones in flight.
Started ==
    SumOver([n \in Names |-> TotalRequests(endpoints[n])], Names)
        + Cardinality({c \in Calls : pc[c] # "idle"})

\* _request_with_failover, one attempt: the router chooses, the endpoint is
\* checked with is_available and _perform_request is called on it.  Without
\* an endpoint the request is given up.
RequestAttempt(c, min_priority) ==
    /\ pc[c] = "idle"
    /\ Started < MaxRequests
    /\ LET chosen == Choose(endpoints, active_rr_index, min_priority)
       IN  /\ active_rr_index' = chosen.rr
           /\ IF chosen.endpoint # NoEndpoint
                 /\ IsAvailable(endpoints[chosen.endpoint])
              THEN /\ pc' = [pc EXCEPT ![c] = "global"]
                   /\ call_endpoint' =
                         [call_endpoint EXCEPT ![c] = chosen.endpoint]
              ELSE /\ pc' = pc
                   /\ call_endpoint' = call_endpoint
    /\ UNCHANGED <<endpoints, global_semaphore, slot_acquired, result, trail,
                   feed>>
    /\ UNCHANGED extVars

\* get_address_txids, get_address_summary: _perform_request on an endpoint
\* of all_endpoints() that is_available.
DirectRequest(c, name) ==
    /\ pc[c] = "idle"
    /\ Started < MaxRequests
    /\ IsAvailable(endpoints[name])
    /\ pc' = [pc EXCEPT ![c] = "global"]
    /\ call_endpoint' = [call_endpoint EXCEPT ![c] = name]
    /\ UNCHANGED <<endpoints, global_semaphore, active_rr_index,
                   slot_acquired, result, trail, feed>>
    /\ UNCHANGED extVars

\* await self._global_semaphore.acquire()
AcquireGlobal(c) ==
    /\ pc[c] = "global"
    /\ PermitFree(global_semaphore)
    /\ global_semaphore' = global_semaphore - 1
    /\ pc' = [pc EXCEPT ![c] = "acquire_slot"]
    /\ UNCHANGED <<endpoints, active_rr_index, call_endpoint, slot_acquired,
                   result, trail, feed>>
    /\ UNCHANGED extVars

\* await endpoint.acquire_slot(): the slot is granted; request_delay and
\* get_client follow, then the HTTP call is under way.
SlotGranted(c) ==
    /\ pc[c] = "acquire_slot"
    /\ AcquireSlotTurn(endpoints[call_endpoint[c]]) = "grant"
    /\ endpoints' = [endpoints EXCEPT ![call_endpoint[c]] = TakeSlot(@)]
    /\ slot_acquired' = [slot_acquired EXCEPT ![c] = TRUE]
    /\ pc' = [pc EXCEPT ![c] = "http"]
    /\ UNCHANGED <<global_semaphore, active_rr_index, call_endpoint, result,
                   trail, feed>>
    /\ UNCHANGED extVars

\* acquire_slot: neither granted nor refused, asyncio.sleep before the next
\* turn of the loop
SlotSleep(c) ==
    /\ pc[c] = "acquire_slot"
    /\ AcquireSlotTurn(endpoints[call_endpoint[c]]) = "sleep"
    /\ pc' = [pc EXCEPT ![c] = "sleep"]
    /\ UNCHANGED <<endpoints, global_semaphore, active_rr_index,
                   call_endpoint, slot_acquired, result, trail, feed>>
    /\ UNCHANGED extVars

\* acquire_slot: the sleep (at most 0.5 s) is over
SlotWake(c) ==
    /\ pc[c] = "sleep"
    /\ pc' = [pc EXCEPT ![c] = "acquire_slot"]
    /\ UNCHANGED <<endpoints, global_semaphore, active_rr_index,
                   call_endpoint, slot_acquired, result, trail, feed>>
    /\ UNCHANGED extVars

\* acquire_slot raises RuntimeError: record_failure(0.0), return None
SlotRefused(c) ==
    /\ pc[c] = "acquire_slot"
    /\ AcquireSlotTurn(endpoints[call_endpoint[c]]) = "raise"
    /\ endpoints' = [endpoints EXCEPT ![call_endpoint[c]] = RecordFailure(@, 0)]
    /\ result' = [result EXCEPT ![c] = "none"]
    /\ pc' = [pc EXCEPT ![c] = "finally"]
    /\ UNCHANGED <<global_semaphore, active_rr_index, call_endpoint,
                   slot_acquired, trail, feed>>
    /\ UNCHANGED extVars

\* The HTTP call ends and is handled as Classify says: record_success or
\* record_failure with the latency, and the value to return.
HttpHandled(c, handled, latency) ==
    /\ pc[c] = "http"
    /\ endpoints' =
          [endpoints EXCEPT ![call_endpoint[c]] =
              IF handled.success
              THEN RecordSuccess(@, latency)
              ELSE RecordFailure(@, latency)]
    /\ result' = [result EXCEPT ![c] = handled.returns]
    /\ pc' = [pc EXCEPT ![c] = "finally"]
    /\ UNCHANGED <<global_semaphore, active_rr_index, call_endpoint,
                   slot_acquired, trail, feed>>

\* The HTTP call ends, with nothing kept of its outcome but what was
\* recorded and what is returned.
HttpDone(c, handled, latency) ==
    /\ HttpHandled(c, handled, latency)
    /\ UNCHANGED extVars

\* finally: release_slot if slot_acquired, then the global permit; the
\* value goes to the caller and the call is over
Return(c) ==
    /\ pc[c] = "finally"
    /\ endpoints' =
          [endpoints EXCEPT ![call_endpoint[c]] =
              IF slot_acquired[c] THEN ReleaseSlot(@) ELSE @]
    /\ global_semaphore' = global_semaphore + 1
    /\ slot_acquired' = [slot_acquired EXCEPT ![c] = FALSE]
    /\ call_endpoint' = [call_endpoint EXCEPT ![c] = NoEndpoint]
    /\ result' = [result EXCEPT ![c] = "unset"]
    /\ pc' = [pc EXCEPT ![c] = "idle"]
    /\ UNCHANGED <<active_rr_index, trail, feed>>

\* _perform_request returns to a caller that is not modelled further.
Finally(c) ==
    /\ Return(c)
    /\ UNCHANGED extVars

\* One second passes.
Tick ==
    /\ \E n \in Names :
          \/ endpoints[n].cooldown_until > 0
          \/ endpoints[n].last_adjustment < AdjustInterval
    /\ endpoints' = [n \in Names |-> Elapse(endpoints[n])]
    /\ UNCHANGED <<global_semaphore, active_rr_index, pc, call_endpoint,
                   slot_acquired, result, trail, feed>>
    /\ UNCHANGED extVars

\* No choose call has been made.
RouterInit ==
    /\ run_pool = <<>>
    /\ run_picked = <<>>

\* No logical request is under way.
FailoverInit ==
    /\ fo_pc = "idle"
    /\ attempts = 0
    /\ attempt_timeout = 0
    /\ fo_result = "unset"
    /\ now = 0
    /\ performs = 0
    /\ got_body = FALSE

\* What the endpoint pool leaves alone, at rest.
\* No HTTP call has ended.
PerformInit == http_outcome = [c \in Calls |-> "unset"]

\* dict.get and the returns of the lookups that find nothing
None == [none |-> TRUE]

\* A local that is not bound yet.
Unset == [unset |-> TRUE]

Txids == {"ta", "tb", "tc"}

\* No fetch_transaction call is under way.
FtIdle ==
    [pc |-> "idle", txid |-> Unset, cached |-> Unset, requests |-> 0,
     stored |-> Unset, written |-> FALSE, result |-> Unset]

\* No fetch_transactions_batch call is under way.
BtIdle ==
    [pc |-> "idle", txids |-> <<>>, unique_txids |-> <<>>,
     txid_positions |-> <<>>, seen |-> <<>>, result_map |-> <<>>,
     made |-> 0, uncached_txids |-> <<>>, failed_txids |-> <<>>,
     mempool_asked |-> <<>>, electrum_asked |-> <<>>,
     mempool_replies |-> <<>>, electrum_replies |-> <<>>,
     result |-> <<>>]

\* Redis holds no transaction and no call is under way.
DataInit ==
    /\ cache = [t \in Txids |-> None]
    /\ ft = FtIdle
    /\ bt = BtIdle

\* No fetch_address_history call is under way.
FhIdle ==
    [pc |-> "idle", given |-> <<>>, raised |-> "", expected_count |-> <<>>,
     max_results |-> 0, priority |-> 0, best_txids |-> <<>>,
     result |-> <<>>]

\* No get_address_txids call is under way.
GaIdle ==
    [pc |-> "idle", max_results |-> 0, expected_total |-> <<>>,
     effective_max |-> 0, default_page_size |-> 0, limit |-> 0,
     collected |-> <<>>, offset |-> 0, page |-> 0]

\* Redis holds no history and no call is under way.
AddressInit ==
    /\ addr_cache = <<>>
    /\ fh = FhIdle
    /\ ga = GaIdle

\* TraceOrchestrator.__init__: an empty graph, nothing visited, and no call
\* under way.
TrIdle ==
    [pc |-> "idle", txid |-> "", max_depth |-> 0, include_coinjoin |-> FALSE,
     confidence_threshold |-> 0, graph_nodes |-> <<>>, graph_edges |-> {},
     visited_txids |-> {}, coinjoins |-> <<>>, stack |-> <<>>,
     calls |-> <<>>, nodes |-> <<>>, edges |-> {}, raised |-> ""]

TraceInit == tr = TrIdle

\* No request is being served.
ApiIdle ==
    [handler |-> "", pc |-> "idle", hops_before |-> 0, hops_after |-> 0,
     max_transactions |-> 0, max_addresses_per_tx |-> 0, history |-> <<>>,
     txids |-> <<>>, nodes |-> <<>>, edges |-> {}, events |-> <<>>,
     fetches |-> 0, path |-> "", raised |-> "", status |-> 0]

ApiInit == api = ApiIdle

\* No detect_peel_chain call is under way.
NoTransaction == [txid |-> "", inputs |-> 0, outputs |-> <<>>, locktime |-> 0]
PkIdle ==
    [pc |-> "idle", chain |-> <<>>, current_tx |-> "", analysed |-> <<>>,
     hop_number |-> 0, max_hops |-> 0, min_confidence |-> 0]

PeelInit == pk = PkIdle

\* AddressClusterer.__init__: an empty graph and empty mappings; no call
\* made.
ClIdle ==
    [graph_nodes |-> {}, graph_edges |-> {}, clusters |-> {},
     address_to_cluster |-> <<>>, last |-> "none", inputs |-> <<>>,
     is_coinjoin |-> FALSE, returned |-> <<>>, grew |-> FALSE]

ClusterInit == cl = ClIdle

\* No detect_coinjoin call is under way.
CjIdle == [pc |-> "idle", transaction |-> NoTransaction, returned |-> <<>>]

CoinJoinInit == cj = CjIdle

\* The endpoints get_address_summary goes over.
SummaryNames == {"e1", "e2", "e3"}

\* No get_address_summary call is under way and no endpoint has a penalty.
SmIdle ==
    [pc |-> "idle", order |-> <<>>, at |-> 0, history_hint |-> <<>>,
     visited |-> "", data |-> <<>>, compact_from |-> {}, result |-> <<>>,
     penalty |-> [n \in SummaryNames |-> 0]]

SummaryInit == sm = SmIdle

UpperInit ==
    ApiInit /\ PeelInit /\ ClusterInit /\ CoinJoinInit /\ SummaryInit

LaterInit ==
    PerformInit /\ DataInit /\ AddressInit /\ TraceInit /\ UpperInit

ExtInit == RouterInit /\ FailoverInit /\ LaterInit

\* MempoolDataSource.__init__: the pool at rest
PoolAtRest ==
    /\ endpoints = [n \in Names |-> PostInit(Config(n, TierInitial(n)))]
    /\ global_semaphore = GlobalMaxInflight
    /\ active_rr_index = 0
    /\ pc = [c \in Calls |-> "idle"]
    /\ call_endpoint = [c \in Calls |-> NoEndpoint]
    /\ slot_acquired = [c \in Calls |-> FALSE]
    /\ result = [c \in Calls |-> "unset"]
    /\ trail = [n \in Names |-> <<>>]
    /\ feed = "any"

BeyondRouterInit == FailoverInit /\ LaterInit
BeyondFailoverInit == RouterInit /\ LaterInit
BeyondPerformInit ==
    /\ RouterInit /\ FailoverInit /\ DataInit /\ AddressInit /\ TraceInit
    /\ UpperInit
BeyondDataInit ==
    /\ PoolAtRest /\ RouterInit /\ FailoverInit /\ PerformInit
    /\ AddressInit /\ TraceInit /\ UpperInit
BeyondAddressInit ==
    /\ PoolAtRest /\ RouterInit /\ FailoverInit /\ PerformInit
    /\ DataInit /\ TraceInit /\ UpperInit
BeyondTraceInit ==
    /\ PoolAtRest /\ RouterInit /\ FailoverInit /\ PerformInit
    /\ DataInit /\ AddressInit /\ UpperInit
BelowUpperInit ==
    /\ PoolAtRest /\ RouterInit /\ FailoverInit /\ PerformInit
    /\ DataInit /\ AddressInit /\ TraceInit
BeyondApiInit ==
    BelowUpperInit /\ PeelInit /\ ClusterInit /\ CoinJoinInit /\ SummaryInit
BeyondPeelInit ==
    BelowUpperInit /\ ApiInit /\ ClusterInit /\ CoinJoinInit /\ SummaryInit
BeyondClusterInit ==
    BelowUpperInit /\ ApiInit /\ PeelInit /\ CoinJoinInit /\ SummaryInit
BeyondCoinJoinInit ==
    BelowUpperInit /\ ApiInit /\ PeelInit /\ ClusterInit /\ SummaryInit
BeyondSummaryInit ==
    BelowUpperInit /\ ApiInit /\ PeelInit /\ ClusterInit /\ CoinJoinInit

Init ==
    /\ endpoints = [n \in Names |-> PostInit(Config(n, TierInitial(n)))]
    /\ global_semaphore = GlobalMaxInflight
    /\ active_rr_index = 0
    /\ pc = [c \in Calls |-> "idle"]
    /\ call_endpoint = [c \in Calls |-> NoEndpoint]
    /\ slot_acquired = [c \in Calls |-> FALSE]
    /\ result = [c \in Calls |-> "unset"]
    /\ trail = [n \in Names |-> <<>>]
    /\ feed = "any"
    /\ ExtInit

Next ==
    \/ \E c \in Calls, p \in 0..2 : RequestAttempt(c, p)
    \/ \E c \in Calls, n \in Names : DirectRequest(c, n)
    \/ \E c \in Calls : AcquireGlobal(c)
    \/ \E c \in Calls : SlotGranted(c)
    \/ \E c \in Calls : SlotSleep(c)
    \/ \E c \in Calls : SlotWake(c)
    \/ \E c \in Calls : SlotRefused(c)
    \/ \E c \in Calls, h \in {Classify(o) : o \in HttpOutcomes},
          l \in HttpLatencies : HttpDone(c, h, l)
    \/ \E c \in Calls : Finally(c)
    \/ Tick

Spec == Init /\ [][Next]_vars

----------------------------------------------------------------------------
(* The pool under a fair event loop: every call that can take its next     *)
(* step takes it, every HTTP call returns or times out, and time passes    *)

\* The next step of call c inside _perform_request.
CallStep(c) ==
    \/ AcquireGlobal(c)
    \/ SlotGranted(c)
    \/ SlotSleep(c)
    \/ SlotWake(c)
    \/ SlotRefused(c)
    \/ \E h \in {Classify(o) : o \in HttpOutcomes}, l \in HttpLatencies :
          HttpDone(c, h, l)
    \/ Finally(c)

SpecFair == Spec /\ WF_vars(Tick) /\ \A c \in Calls : WF_vars(CallStep(c))

\* The states of a call that holds a permit of the global semaphore.
HoldsPermit(c) == pc[c] \in {"acquire_slot", "sleep", "http", "finally"}

----------------------------------------------------------------------------
(* One endpoint, of the additional tier, and the responses recorded on it   *)

FeedLatencies == {FastLatency, SlowLatency}

\* The endpoint that is fed.
Fed == call_endpoint["c1"]

Response(ok, latency, before, after) ==
    [ok |-> ok, latency |-> latency,
     before |-> before.concurrency_limit, after |-> after.concurrency_limit]

\* record_success(latency) on the endpoint
FeedSuccess(latency) ==
    /\ feed = "any"
    /\ TotalRequests(endpoints[Fed]) < MaxRecords
    /\ LET after == RecordSuccess(endpoints[Fed], latency)
       IN  /\ endpoints' = [endpoints EXCEPT ![Fed] = after]
           /\ trail' = [trail EXCEPT ![Fed] =
                 DequeAppend(@, Response(TRUE, latency, endpoints[Fed], after))]
    /\ UNCHANGED <<global_semaphore, active_rr_index, pc, call_endpoint,
                   slot_acquired, result, feed>>
    /\ UNCHANGED extVars

\* record_failure(latency) on the endpoint
FeedFailure(latency) ==
    /\ feed = "any"
    /\ TotalRequests(endpoints[Fed]) < MaxRecords
    /\ LET after == RecordFailure(endpoints[Fed], latency)
       IN  /\ endpoints' = [endpoints EXCEPT ![Fed] = after]
           /\ trail' = [trail EXCEPT ![Fed] =
                 DequeAppend(@, Response(FALSE, latency, endpoints[Fed], after))]
    /\ UNCHANGED <<global_semaphore, active_rr_index, pc, call_endpoint,
                   slot_acquired, result, feed>>
    /\ UNCHANGED extVars

\* One second passes.
FeedTick ==
    /\ \/ endpoints[Fed].cooldown_until > 0
       \/ endpoints[Fed].last_adjustment < AdjustInterval
    /\ endpoints' = [endpoints EXCEPT ![Fed] = Elapse(@)]
    /\ UNCHANGED <<global_semaphore, active_rr_index, pc, call_endpoint,
                   slot_acquired, result, trail, feed>>
    /\ UNCHANGED extVars

InitFeed ==
    /\ \E initial \in EndpointMinConcurrent..EndpointMaxConcurrent :
          endpoints = [n \in Names |-> PostInit(Config(n, initial))]
    /\ global_semaphore = GlobalMaxInflight
    /\ active_rr_index = 0
    /\ pc = [c \in Calls |-> "idle"]
    /\ call_endpoint = [c \in Calls |-> "e1"]
    /\ slot_acquired = [c \in Calls |-> FALSE]
    /\ result = [c \in Calls |-> "unset"]
    /\ trail = [n \in Names |-> <<>>]
    /\ feed = "any"
    /\ ExtInit

NextFeed ==
    \/ \E l \in FeedLatencies : FeedSuccess(l)
    \/ \E l \in FeedLatencies : FeedFailure(l)
    \/ FeedTick

SpecFeed == InitFeed /\ [][NextFeed]_vars

----------------------------------------------------------------------------
(* One endpoint fed slow successes until its limit is min_concurrency, and  *)
(* fast successes from then on                                              *)

\* record_success(3 * latency_target) on the endpoint
SlowSuccess ==
    /\ feed = "slow"
    /\ TotalRequests(endpoints[Fed]) < ScenarioRecords
    /\ endpoints' = [endpoints EXCEPT ![Fed] = RecordSuccess(@, SlowLatency)]
    /\ UNCHANGED <<global_semaphore, active_rr_index, pc, call_endpoint,
                   slot_acquired, result, trail, feed>>
    /\ UNCHANGED extVars

\* record_success(latency_target) on the endpoint: the fast responses
\* begin once the limit is min_concurrency.
FastSuccess ==
    /\ \/ feed = "fast"
       \/ endpoints[Fed].concurrency_limit = endpoints[Fed].min_concurrency
    /\ TotalRequests(endpoints[Fed]) < ScenarioRecords
    /\ endpoints' = [endpoints EXCEPT ![Fed] = RecordSuccess(@, FastLatency)]
    /\ feed' = "fast"
    /\ UNCHANGED <<global_semaphore, active_rr_index, pc, call_endpoint,
                   slot_acquired, result, trail>>
    /\ UNCHANGED extVars

InitSlowFast ==
    /\ \E initial \in EndpointMinConcurrent..EndpointMaxConcurrent :
          endpoints = [n \in Names |-> PostInit(Config(n, initial))]
    /\ global_semaphore = GlobalMaxInflight
    /\ active_rr_index = 0
    /\ pc = [c \in Calls |-> "idle"]
    /\ \E n \in Names : call_endpoint = [c \in Calls |-> n]
    /\ slot_acquired = [c \in Calls |-> FALSE]
    /\ result = [c \in Calls |-> "unset"]
    /\ trail = [n \in Names |-> <<>>]
    /\ feed = "slow"
    /\ ExtInit

NextSlowFast ==
    \/ SlowSuccess
    \/ FastSuccess
    \/ FeedTick

SpecSlowFast == InitSlowFast /\ [][NextSlowFast]_vars

----------------------------------------------------------------------------
(* Claims on the pool (Spec)                                                *)

\* The calls that hold a permit of the global semaphore.
Holding == {c \in Calls : pc[c] \in {"acquire_slot", "sleep", "http", "finally"}}

\* The calls that hold a slot of endpoint n.
SlotHolders(n) == {c \in Calls : slot_acquired[c] /\ call_endpoint[c] = n}

\* C1, as stated: every endpoint always has
\* 0 <= active_slots <= concurrency_limit <= max_concurrency, and
\* min_concurrency <= concurrency_limit unless the limit is 0.
C1_SlotsWithinLimit ==
    \A n \in Names :
        LET s == endpoints[n]
        IN  /\ 0 <= s.active_slots
            /\ s.active_slots <= s.concurrency_limit
            /\ s.concurrency_limit <= s.max_concurrency
            /\ (s.concurrency_limit = 0 \/ s.min_concurrency <= s.concurrency_limit)

\* C1, amended: every endpoint always has 0 <= active_slots <=
\* max_concurrency and 0 <= concurrency_limit <= max_concurrency, with
\* min_concurrency <= concurrency_limit unless the limit is 0; and a step
\* that raises active_slots (a slot is granted) leaves it within the limit.
\* A later lowering of the limit may leave active_slots above it.
C1_LimitBoundedSlotsGrantedWithinLimit ==
    /\ [](\A n \in Names :
            LET s == endpoints[n]
            IN  /\ 0 <= s.active_slots
                /\ s.active_slots <= s.max_concurrency
                /\ 0 <= s.concurrency_limit
                /\ s.concurrency_limit <= s.max_concurrency
                /\ (s.concurrency_limit = 0
                        \/ s.min_concurrency <= s.concurrency_limit))
    /\ [][\A n \in Names :
            endpoints'[n].active_slots > endpoints[n].active_slots
                => endpoints'[n].active_slots <= endpoints'[n].concurrency_limit]_vars

\* C1: an endpoint whose limit was lowered under the slots that are held.
C1_Witness ==
    \E n \in Names :
        /\ endpoints[n].active_slots > endpoints[n].concurrency_limit
        /\ SlotHolders(n) # {}

\* C2: a call that has returned from _perform_request holds neither the
\* global permit nor a slot, and nothing else is missing: the free permits
\* are those no call in progress holds, and each endpoint's active_slots
\* counts the calls that hold a slot on it.
C2_PermitAndSlotReleased ==
    /\ global_semaphore + Cardinality(Holding) = GlobalMaxInflight
    /\ \A n \in Names : endpoints[n].active_slots = Cardinality(SlotHolders(n))
    /\ \A c \in Calls : pc[c] \in {"idle", "global"} => ~slot_acquired[c]

\* C2: calls have returned from an endpoint after a success and after a
\* failure, and the only call in progress holds the one permit and the one
\* slot that are taken.
C2_Witness ==
    \E d \in Calls :
        /\ pc[d] = "http"
        /\ \A c \in Calls \ {d} : pc[c] = "idle"
        /\ endpoints[call_endpoint[d]].total_successes > 0
        /\ endpoints[call_endpoint[d]].total_failures > 0
        /\ endpoints[call_endpoint[d]].active_slots = 1
        /\ global_semaphore = GlobalMaxInflight - 1

\* C3: a priority-0 endpoint is never disabled for good: once its cooldown
\* is clear it is available.
C3_Priority0StaysReachable ==
    \A n \in Names :
        (endpoints[n].config.priority = 0 /\ endpoints[n].cooldown_until = 0)
            => IsAvailable(endpoints[n])

\* C4: at most global_max_inflight calls are past the acquisition of the
\* global semaphore.
C4_InflightCapped == Cardinality(Holding) <= GlobalMaxInflight

\* C4: every permit is taken and a further call waits for one.
C4_Witness ==
    /\ Cardinality(Holding) = GlobalMaxInflight
    /\ \E c \in Calls : pc[c] = "global"

\* C5: acquire_slot on a disabled endpoint (concurrency_limit = 0) neither
\* waits nor goes on to the HTTP call: the call's next step is to return
\* None.
C5_DisabledFailsFast ==
    [][\A c \in Calls :
          (/\ pc[c] = "acquire_slot"
           /\ endpoints[call_endpoint[c]].concurrency_limit = 0
           /\ pc'[c] # pc[c])
              => (pc'[c] = "finally" /\ result'[c] = "none")]_vars

----------------------------------------------------------------------------
(* Claims on the responses recorded on one endpoint (SpecFeed)              *)

Last(q) == q[Len(q)]

Outcomes(t) == [i \in DOMAIN t |-> t[i].ok]
LatenciesOf(t) == [i \in DOMAIN t |-> t[i].latency]

\* The last AdjustWindow responses have success_rate >= target and
\* avg_latency <= latency_target.
GoodSequence(t) ==
    /\ Len(t) = AdjustWindow
    /\ SuccessRateOk(Outcomes(t))
    /\ LatencyOk(LatenciesOf(t))

\* The last AdjustWindow responses have success_rate < target or
\* avg_latency > latency_target.
BadSequence(t) ==
    /\ Len(t) = AdjustWindow
    /\ (~SuccessRateOk(Outcomes(t)) \/ ~LatencyOk(LatenciesOf(t)))

\* C6: record_failure never raises concurrency_limit: whenever the last
\* response recorded on an endpoint is a failure, the limit after it is at
\* most the limit before it.
C6_FailureNeverIncreases ==
    \A n \in Names :
        (trail[n] # <<>> /\ ~Last(trail[n]).ok)
            => Last(trail[n]).after <= Last(trail[n]).before

\* C6: a failure was recorded that, adjusted as a success is, would have
\* raised the limit: the window is full, the rates are within the targets,
\* the last adjustment is a second old and the limit is below the maximum.
C6_Witness ==
    \E n \in Names :
        LET s == endpoints[n]
        IN  /\ trail[n] # <<>> /\ ~Last(trail[n]).ok
            /\ Last(trail[n]).before > 0
            /\ s.concurrency_limit > 0
            /\ s.concurrency_limit < s.max_concurrency
            /\ Len(s.recent_outcomes) = AdjustWindow
            /\ SuccessRateOk(s.recent_outcomes)
            /\ LatencyOk(s.recent_latencies)
            /\ s.last_adjustment >= AdjustInterval

\* C7, as stated: over any AdjustWindow consecutive responses with
\* success_rate >= target and avg_latency <= latency_target no response
\* lowers the limit.
C7_NoDecreaseOverGoodSequence ==
    \A n \in Names :
        GoodSequence(trail[n])
            => \A i \in DOMAIN trail[n] : trail[n][i].after >= trail[n][i].before

\* C7, amended: the response that completes AdjustWindow consecutive
\* responses with success_rate >= target and avg_latency <= latency_target
\* does not lower the limit, unless it is the failure that reaches the
\* consecutive-failure threshold, which sets the limit to 0.  (The earlier
\* responses of the sequence are judged on the window that ends at them.)
C7_GoodSequenceEndsWithoutDecrease ==
    \A n \in Names :
        GoodSequence(trail[n])
            => \/ Last(trail[n]).after >= Last(trail[n]).before
               \/ /\ ~Last(trail[n]).ok
                  /\ Last(trail[n]).after = 0
                  /\ endpoints[n].consecutive_failures >= FailureThreshold

\* C7: a sequence within the targets whose last response was judged and
\* raised the limit.
C7_Witness ==
    \E n \in Names :
        /\ GoodSequence(trail[n])
        /\ Last(trail[n]).after > Last(trail[n]).before

\* C8, as stated: over any AdjustWindow consecutive responses with
\* success_rate < target or avg_latency > latency_target no response raises
\* the limit.
C8_NoIncreaseOverBadSequence ==
    \A n \in Names :
        BadSequence(trail[n])
            => \A i \in DOMAIN trail[n] : trail[n][i].after <= trail[n][i].before

\* C8, amended: the response that completes AdjustWindow consecutive
\* responses with success_rate < target or avg_latency > latency_target
\* does not raise the limit.  (The earlier responses of the sequence are
\* judged on the window that ends at them.)
C8_BadSequenceEndsWithoutIncrease ==
    \A n \in Names :
        BadSequence(trail[n])
            => Last(trail[n]).after <= Last(trail[n]).before

\* C8: a sequence outside the targets whose last response was judged and
\* lowered the limit by one.
C8_Witness ==
    \E n \in Names :
        /\ BadSequence(trail[n])
        /\ Last(trail[n]).after = Last(trail[n]).before - 1
        /\ Last(trail[n]).after > 0

----------------------------------------------------------------------------
(* Claim on the endpoint fed slow, then fast successes (SpecSlowFast)       *)

\* C9: fed successes of 3 * latency_target, the limit goes down by one per
\* adjustment (so after at most initial - min_concurrency adjustments it is
\* min_concurrency) and never below min_concurrency; a slow response that
\* completes a window a second or more after the last adjustment does lower
\* a limit above min_concurrency.  Fed fast successes afterwards, the limit
\* goes up by one per adjustment and never above max_concurrency.  Every
\* adjustment is made on a full window and clears it.
C9_DownToMinThenUpByOne ==
    /\ [](/\ endpoints[Fed].concurrency_limit >= endpoints[Fed].min_concurrency
          /\ endpoints[Fed].concurrency_limit <= endpoints[Fed].max_concurrency)
    /\ [][LET s == endpoints[Fed]
              after == endpoints'[Fed]
          IN  /\ feed' = "slow" =>
                    after.concurrency_limit
                        \in {s.concurrency_limit, s.concurrency_limit - 1}
              /\ feed' = "fast" =>
                    after.concurrency_limit
                        \in {s.concurrency_limit, s.concurrency_limit + 1}
              /\ after.concurrency_limit # s.concurrency_limit =>
                    /\ Len(s.recent_outcomes) >= AdjustWindow - 1
                    /\ after.recent_outcomes = <<>>
                    /\ after.recent_latencies = <<>>
              /\ (/\ feed' = "slow"
                  /\ after.total_successes # s.total_successes
                  /\ Len(s.recent_outcomes) >= AdjustWindow - 1
                  /\ s.last_adjustment >= AdjustInterval
                  /\ s.concurrency_limit > s.min_concurrency)
                    => after.concurrency_limit = s.concurrency_limit - 1]_vars

\* C9: an endpoint that started at max_concurrency, came down to
\* min_concurrency on slow successes and is back at max_concurrency on
\* fast ones.
C9_Witness ==
    LET s == endpoints[Fed]
    IN  /\ feed = "fast"
        /\ s.config.initial_concurrent = s.max_concurrency
        /\ s.max_concurrency > s.min_concurrency
        /\ s.concurrency_limit = s.max_concurrency

----------------------------------------------------------------------------
(* Claim on the router (Spec)                                               *)

\* The endpoints choose(min_priority) may return: priority >= min_priority,
\* enabled, concurrency_limit > 0 and no cooldown left.
Eligible(min_priority) ==
    {n \in Names : /\ endpoints[n].config.priority >= min_priority
                   /\ endpoints[n].config.enabled
                   /\ endpoints[n].concurrency_limit > 0
                   /\ endpoints[n].cooldown_until = 0}

\* C10: choose(min_priority) returns only an endpoint with priority >=
\* min_priority that is available at the time of the call, and returns
\* None exactly when there is no such endpoint.
C10_ChooseOnlyAvailable ==
    \A p \in 0..2 :
        LET chosen == Choose(endpoints, active_rr_index, p).endpoint
        IN  /\ chosen # NoEndpoint => chosen \in Eligible(p)
            /\ chosen = NoEndpoint <=> Eligible(p) = {}

\* C10: with a request routed and under way, the priority-0 endpoint is in
\* cooldown, so choose(0) returns the priority-1 endpoint, and choose(2)
\* returns None.
C10_Witness ==
    /\ \E c \in Calls : pc[c] # "idle"
    /\ endpoints["e0"].cooldown_until > 0
    /\ Choose(endpoints, active_rr_index, 0).endpoint = "e1"
    /\ Choose(endpoints, active_rr_index, 2).endpoint = NoEndpoint

----------------------------------------------------------------------------
(* The router over six endpoints                                            *)

RouterNames == {"e0", "e1", "e2", "e3", "e4", "e5"}

Fast(ok) == [ok |-> ok, latency |-> FastLatency]
Slow(ok) == [ok |-> ok, latency |-> SlowLatency]

\* The responses an endpoint has answered before the router is watched:
\* none, one slow success, one failure (its cooldown still runs), or a
\* failure followed by AdjustWindow fast successes.
RouterHistories ==
    { <<>>,
      <<Slow(TRUE)>>,
      <<Fast(FALSE)>>,
      <<Fast(FALSE)>> \o [i \in 1..AdjustWindow |-> Fast(TRUE)] }

\* record_success / record_failure for each response of a history, a second
\* apart
RECURSIVE Replay(_, _)
Replay(s, history) ==
    IF history = <<>> THEN s
    ELSE LET r == Head(history)
             recorded == IF r.ok THEN RecordSuccess(s, r.latency)
                         ELSE RecordFailure(s, r.latency)
         IN  IF Tail(history) = <<>> THEN recorded
             ELSE Replay(Elapse(recorded), Tail(history))

LastK(q, k) == IF Len(q) <= k THEN q ELSE SubSeq(q, Len(q) - k + 1, Len(q))

\* await self._router.choose(min_priority)
RouterChoose(min_priority) ==
    LET pool == TopNAvailable(endpoints, TopN, min_priority)
        chosen == Choose(endpoints, active_rr_index, min_priority)
    IN  /\ active_rr_index' = chosen.rr
        /\ run_pool' = pool
        /\ run_picked' =
              IF chosen.endpoint = NoEndpoint THEN <<>>
              ELSE IF pool = run_pool
              THEN LastK(Append(run_picked, chosen.endpoint), Len(pool))
              ELSE <<chosen.endpoint>>
        /\ UNCHANGED <<endpoints, callVars, beyondRouter>>

\* One second passes.
RouterTick ==
    /\ \E n \in RouterNames :
          \/ endpoints[n].cooldown_until > 0
          \/ endpoints[n].last_adjustment < AdjustInterval
    /\ endpoints' = [n \in RouterNames |-> Elapse(endpoints[n])]
    /\ UNCHANGED <<active_rr_index, callVars, routerVars, beyondRouter>>

InitRouter ==
    /\ \E histories \in [RouterNames -> RouterHistories] :
          /\ Cardinality({n \in RouterNames : histories[n] # <<>>})
                <= MaxReplayed
          /\ endpoints =
                [n \in RouterNames |->
                    Replay(PostInit(Config(n, TierInitial(n))), histories[n])]
    /\ global_semaphore = GlobalMaxInflight
    /\ active_rr_index = 0
    /\ pc = [c \in Calls |-> "idle"]
    /\ call_endpoint = [c \in Calls |-> NoEndpoint]
    /\ slot_acquired = [c \in Calls |-> FALSE]
    /\ result = [c \in Calls |-> "unset"]
    /\ trail = [n \in Names |-> <<>>]
    /\ feed = "any"
    /\ RouterInit
    /\ BeyondRouterInit

NextRouter ==
    \/ \E p \in 0..2 : RouterChoose(p)
    \/ RouterTick

SpecRouter == InitRouter /\ [][NextRouter]_vars

----------------------------------------------------------------------------
(* Claim on the router over six endpoints (SpecRouter)                      *)

\* The endpoints of priority >= min_priority that are available.
Candidates(min_priority) ==
    {n \in DOMAIN endpoints : /\ endpoints[n].config.priority >= min_priority
                              /\ IsAvailable(endpoints[n])}

Range(q) == {q[i] : i \in DOMAIN q}

\* The success rate over the rolling window of recent outcomes (0 on an
\* empty window), compared as SuccessRateCmp compares.
RecentRateCmp(a, b) ==
    LET an == Successes(a.recent_outcomes)
        ad == Max(1, Len(a.recent_outcomes))
        bn == Successes(b.recent_outcomes)
        bd == Max(1, Len(b.recent_outcomes))
    IN  IF an * bd > bn * ad THEN -1 ELSE IF an * bd < bn * ad THEN 1 ELSE 0

\* (-recent_success_rate, avg_latency, -concurrency_limit, total_failures)
RecentScoreLess(a, b) ==
    IF RecentRateCmp(a, b) # 0 THEN RecentRateCmp(a, b) < 0
    ELSE IF AvgLatencyCmp(a, b) # 0 THEN AvgLatencyCmp(a, b) < 0
    ELSE IF a.concurrency_limit # b.concurrency_limit
         THEN a.concurrency_limit > b.concurrency_limit
    ELSE a.total_failures < b.total_failures

\* pool holds the best TopN of the candidates in the ranking Less, best
\* first, and no candidate twice.
RankedTopN(pool, Less(_, _), min_priority) ==
    /\ Range(pool) \subseteq Candidates(min_priority)
    /\ Len(pool) = Min(TopN, Cardinality(Candidates(min_priority)))
    /\ Cardinality(Range(pool)) = Len(pool)
    /\ \A i, j \in DOMAIN pool :
          i < j => ~Less(endpoints[pool[j]], endpoints[pool[i]])
    /\ \A n \in Candidates(min_priority) \ Range(pool) :
          \A i \in DOMAIN pool : ~Less(endpoints[n], endpoints[pool[i]])

\* Round-robin: the choose calls made while the pool stayed the same, the
\* last Len(pool) of them, returned members of the pool, no member twice.
RoundRobin ==
    /\ Range(run_picked) \subseteq Range(run_pool)
    /\ Len(run_picked) <= TopN
    /\ \A i, j \in DOMAIN run_picked :
          i # j => run_picked[i] # run_picked[j]

\* C11, as stated: choose ranks the candidates by (-recent_success_rate,
\* avg_latency, -concurrency_limit, total_failures), keeps the top 5 and
\* returns one of them; while the ranked top-N is unchanged and has k
\* members, k consecutive choose calls return k distinct endpoints.
C11_RankedByRecentRateRoundRobin ==
    /\ \A p \in 0..2 :
          LET pool == TopNAvailable(endpoints, TopN, p)
              chosen == Choose(endpoints, active_rr_index, p).endpoint
          IN  /\ RankedTopN(pool, RecentScoreLess, p)
              /\ chosen # NoEndpoint => chosen \in Range(pool)
    /\ RoundRobin

\* C11, amended: the first component of the ranking is the success rate
\* over all requests of the endpoint (total_successes / total_requests),
\* not over its recent window; the rest as stated.
C11_RankedByTotalRateRoundRobin ==
    /\ \A p \in 0..2 :
          LET pool == TopNAvailable(endpoints, TopN, p)
              chosen == Choose(endpoints, active_rr_index, p).endpoint
          IN  /\ RankedTopN(pool, ScoreLess, p)
              /\ chosen # NoEndpoint => chosen \in Range(pool)
    /\ RoundRobin

\* C11: six candidates, five consecutive choose calls on the same top 5
\* have returned its five members, and the sixth candidate is left out.
C11_Witness ==
    /\ Cardinality(Candidates(0)) > TopN
    /\ run_pool = TopNAvailable(endpoints, TopN, 0)
    /\ Len(run_picked) = TopN
    /\ Range(run_picked) = Range(run_pool)

----------------------------------------------------------------------------
(* Claims on the rotation counter and on priorities (SpecRouter)            *)

\* A step in which a choose call returned an endpoint and the record of the
\* run shows it.
ChoseEndpoint == run_picked' # <<>> /\ run_picked' # run_picked

\* C31, as stated: the round-robin counter never decreases, and each choose
\* call that returns an endpoint advances it by one.
C31_CounterNeverDecreases ==
    [][/\ active_rr_index' >= active_rr_index
       /\ ChoseEndpoint => active_rr_index' = active_rr_index + 1]_vars

\* C31, amended: a choose call that returns an endpoint takes
\* idx = counter mod len(pool) and leaves the counter at
\* (idx + 1) mod len(pool), so the counter stays below the pool's length
\* (at most 5) and falls back to 0 after the pool's last member; no other
\* step changes it.
C31_CounterWrapsWithinPool ==
    [][/\ active_rr_index' \in 0..(TopN - 1)
       /\ ChoseEndpoint =>
             active_rr_index' =
                ((active_rr_index % Len(run_pool')) + 1) % Len(run_pool')
       /\ active_rr_index' # active_rr_index =>
             \E p \in 0..2 : TopNAvailable(endpoints, TopN, p) # <<>>]_vars

\* C31: a pool of two or more has been handed out once around and the
\* counter is back at 0.
C31_Witness ==
    /\ Len(run_pool) >= 2
    /\ Len(run_picked) = Len(run_pool)
    /\ run_picked[Len(run_picked)] = run_pool[Len(run_pool)]
    /\ active_rr_index = 0

\* C32, as stated: among the available endpoints of priority >=
\* min_priority, choose returns one of the lowest priority value present:
\* never a priority-1 or priority-2 endpoint while a priority-0 endpoint is
\* available, never a priority-2 endpoint while a priority-1 one is.
C32_LowestPriorityFirst ==
    \A p \in 0..2 :
       LET chosen == Choose(endpoints, active_rr_index, p).endpoint
       IN  chosen # NoEndpoint =>
              \A n \in Candidates(p) :
                 endpoints[chosen].config.priority
                    <= endpoints[n].config.priority

----------------------------------------------------------------------------
(* _request_with_failover: one logical request, and the calls of other      *)
(* callers that may be under way when it starts                             *)

\* The call of the logical request and the calls of the other callers.
OwnCall == "c1"
OtherCalls == Calls \ {OwnCall}

\* The task of the logical request is suspended: at the HTTP call, in the
\* sleep of acquire_slot, or at the global semaphore with no permit free.
\* Only then does the event loop run other tasks and does time pass.
OwnSuspended ==
    \/ pc[OwnCall] \in {"http", "sleep"}
    \/ pc[OwnCall] = "global" /\ ~PermitFree(global_semaphore)

\* time_remaining = deadline - time.perf_counter()
TimeRemaining == RequestTotalTimeout - now

\* An attempt timeout that ignores the time remaining.
AttemptTimeout_Hard(time_remaining) == HardRequestTimeout

\* attempt_timeout = min(settings.mempool_hard_request_timeout, time_remaining)
AttemptTimeout(time_remaining) == Min(HardRequestTimeout, time_remaining)

\* A loop that does not count its attempts.
LoopGoesOn_Uncounted(n) == TRUE

\* while attempts < max_attempts
LoopGoesOn(n) == n < MaxAttempts

\* The loop ends without a body: break, or attempts = max_attempts; the
\* tail of the function returns None.
ReturnNone ==
    /\ fo_pc' = "done"
    /\ fo_result' = "none"
    /\ UNCHANGED <<endpoints, active_rr_index, callVars, attempts,
                   attempt_timeout, now, performs, got_body, beyondFailover>>

\* while attempts < max_attempts is false
FailoverExhausted ==
    /\ fo_pc = "loop"
    /\ ~LoopGoesOn(attempts)
    /\ ReturnNone

\* time_remaining <= 0, or attempt_timeout <= 0: break
FailoverOutOfTime ==
    /\ fo_pc = "loop"
    /\ LoopGoesOn(attempts)
    /\ \/ TimeRemaining <= 0
       \/ AttemptTimeout(TimeRemaining) <= 0
    /\ ReturnNone

\* choose returns None: break
FailoverNoEndpoint ==
    /\ fo_pc = "loop"
    /\ LoopGoesOn(attempts)
    /\ TimeRemaining > 0
    /\ AttemptTimeout(TimeRemaining) > 0
    /\ Choose(endpoints, active_rr_index, 0).endpoint = NoEndpoint
    /\ ReturnNone

\* One turn of the loop with an endpoint: attempts += 1, and, the endpoint
\* being available, _perform_request(endpoint, path, attempt_timeout) is
\* called.
FailoverAttempt ==
    /\ fo_pc = "loop"
    /\ LoopGoesOn(attempts)
    /\ TimeRemaining > 0
    /\ AttemptTimeout(TimeRemaining) > 0
    /\ LET chosen == Choose(endpoints, active_rr_index, 0)
       IN  /\ chosen.endpoint # NoEndpoint
           /\ active_rr_index' = chosen.rr
           /\ attempt_timeout' = AttemptTimeout(TimeRemaining)
           /\ attempts' = attempts + 1
           /\ IF IsAvailable(endpoints[chosen.endpoint])
              THEN /\ performs' = performs + 1
                   /\ fo_pc' = "perform"
                   /\ pc' = [pc EXCEPT ![OwnCall] = "global"]
                   /\ call_endpoint' =
                         [call_endpoint EXCEPT ![OwnCall] = chosen.endpoint]
              ELSE /\ performs' = performs
                   /\ fo_pc' = "loop"
                   /\ pc' = pc
                   /\ call_endpoint' = call_endpoint
    /\ UNCHANGED <<endpoints, global_semaphore, slot_acquired, result, trail,
                   feed, fo_result, now, got_body, beyondFailover>>

\* _perform_request returns to the loop: a body is returned at once, None
\* sends the loop on.
FailoverPerformed ==
    /\ fo_pc = "perform"
    /\ Return(OwnCall)
    /\ IF result[OwnCall] = "body"
       THEN /\ fo_pc' = "done"
            /\ fo_result' = "body"
            /\ got_body' = TRUE
       ELSE /\ fo_pc' = "loop"
            /\ fo_result' = fo_result
            /\ got_body' = got_body
    /\ UNCHANGED <<attempts, attempt_timeout, now, performs, beyondFailover>>

\* One second passes while the task of the request is suspended.  (The
\* turns of the loop between two _perform_request calls do not suspend.)
FailoverTick ==
    /\ fo_pc = "perform"
    /\ OwnSuspended
    /\ now < RequestTotalTimeout
    /\ now' = now + 1
    /\ endpoints' = [n \in Names |-> Elapse(endpoints[n])]
    /\ UNCHANGED <<active_rr_index, callVars, fo_pc, attempts,
                   attempt_timeout, fo_result, performs, got_body,
                   beyondFailover>>

\* The HTTP call of another caller completes while the request is suspended.
OtherHttpDone(c, handled, latency) ==
    /\ OwnSuspended
    /\ HttpDone(c, handled, latency)

\* The call of another caller returns while the request is suspended.
OtherFinally(c) ==
    /\ OwnSuspended
    /\ Finally(c)

\* The request starts with the pool at rest, or with the HTTP calls of
\* other callers under way on some of the endpoints (the other callers are
\* interchangeable: one placement of each kind).
InitFailover ==
    /\ \E busy \in [OtherCalls -> Names \cup {NoEndpoint}],
          initial \in {EndpointMaxConcurrent} :
          /\ \A n \in Names :
                Cardinality({c \in OtherCalls : busy[c] = n})
                    <= PostInit(Config(n, initial)).concurrency_limit
          /\ busy["c3"] # NoEndpoint => busy["c2"] # NoEndpoint
          /\ ~(busy["c2"] = "e1" /\ busy["c3"] = "e0")
          /\ endpoints =
                [n \in Names |->
                    [PostInit(Config(n, initial)) EXCEPT
                        !.active_slots =
                            Cardinality({c \in OtherCalls : busy[c] = n})]]
          /\ global_semaphore =
                GlobalMaxInflight
                    - Cardinality({c \in OtherCalls : busy[c] # NoEndpoint})
          /\ pc = [c \in Calls |->
                     IF c \in OtherCalls /\ busy[c] # NoEndpoint THEN "http"
                     ELSE "idle"]
          /\ call_endpoint =
                [c \in Calls |->
                    IF c \in OtherCalls THEN busy[c] ELSE NoEndpoint]
          /\ slot_acquired =
                [c \in Calls |-> c \in OtherCalls /\ busy[c] # NoEndpoint]
    /\ active_rr_index = 0
    /\ result = [c \in Calls |-> "unset"]
    /\ trail = [n \in Names |-> <<>>]
    /\ feed = "any"
    /\ fo_pc = "loop"
    /\ attempts = 0
    /\ attempt_timeout = 0
    /\ fo_result = "unset"
    /\ now = 0
    /\ performs = 0
    /\ got_body = FALSE
    /\ BeyondFailoverInit

NextFailover ==
    \/ FailoverExhausted
    \/ FailoverOutOfTime
    \/ FailoverNoEndpoint
    \/ FailoverAttempt
    \/ FailoverPerformed
    \/ AcquireGlobal(OwnCall)
    \/ SlotGranted(OwnCall)
    \/ SlotSleep(OwnCall)
    \/ SlotWake(OwnCall)
    \/ SlotRefused(OwnCall)
    \/ \E h \in {Classify(o) : o \in HttpOutcomes} :
          HttpDone(OwnCall, h, FastLatency)
    \/ \E c \in OtherCalls, h \in {Classify(o) : o \in HttpOutcomes} :
          OtherHttpDone(c, h, FastLatency)
    \/ \E c \in OtherCalls : OtherFinally(c)
    \/ FailoverTick

SpecFailover == InitFailover /\ [][NextFailover]_vars

----------------------------------------------------------------------------
(* Claims on _request_with_failover (SpecFailover)                          *)

\* C12: _request_with_failover returns the body of the first
\* _perform_request call that returns one and makes no call after it; it
\* returns None when no call returns a body; and it makes at most
\* max_attempts (10) _perform_request calls.
C12_FirstBodyOrNoneWithinMaxAttempts ==
    /\ [](/\ performs <= attempts
          /\ attempts <= MaxAttempts
          /\ got_body => (fo_pc = "done" /\ fo_result = "body")
          /\ (fo_pc = "done" /\ ~got_body) => fo_result = "none"
          /\ fo_pc # "done" => fo_result = "unset")
    /\ [][/\ got_body => (performs' = performs /\ fo_result' = "body")
          /\ (pc[OwnCall] = "finally" /\ result[OwnCall] = "body"
                  /\ pc'[OwnCall] # "finally")
                => (fo_pc' = "done" /\ fo_result' = "body")
          /\ (pc[OwnCall] = "finally" /\ result[OwnCall] = "none"
                  /\ pc'[OwnCall] # "finally")
                => fo_result' = "unset"]_vars

\* C12: ten _perform_request calls have returned None and the request has
\* returned None.
C12_Witness ==
    /\ fo_pc = "done"
    /\ fo_result = "none"
    /\ performs = MaxAttempts

\* C13, as stated: no attempt is started with time_remaining <= 0, each is
\* given attempt_timeout = min(hard_request_timeout, time_remaining), and
\* the HTTP call of no attempt has a timeout that ends after the deadline.
C13_NoHttpTimeoutPastDeadline ==
    [][/\ performs' > performs =>
             /\ RequestTotalTimeout - now > 0
             /\ attempt_timeout' =
                   Min(HardRequestTimeout, RequestTotalTimeout - now)
       /\ (pc[OwnCall] # "http" /\ pc'[OwnCall] = "http") =>
             now + attempt_timeout <= RequestTotalTimeout]_vars

\* C13, amended: no attempt is started with time_remaining <= 0, and each
\* is given attempt_timeout = min(hard_request_timeout, time_remaining), so
\* that the timeout counted from the start of the attempt ends by the
\* deadline.  (The HTTP call, and its timeout, start only after the waits
\* for the global permit and the endpoint slot.)
C13_AttemptTimeoutWithinRemaining ==
    [][performs' > performs =>
          /\ RequestTotalTimeout - now > 0
          /\ attempt_timeout' =
                Min(HardRequestTimeout, RequestTotalTimeout - now)
          /\ attempt_timeout' > 0
          /\ now + attempt_timeout' <= RequestTotalTimeout]_vars

\* C13: the HTTP call of an attempt is under way whose timeout the time
\* remaining has cut below hard_request_timeout.
C13_Witness ==
    /\ pc[OwnCall] = "http"
    /\ attempt_timeout > 0
    /\ attempt_timeout < HardRequestTimeout

----------------------------------------------------------------------------
(* _perform_request, with the outcome of the HTTP call on record            *)

\* The calls observed.
PerformCalls == {"c1", "c2"}

\* The HTTP call ends with the given outcome.
PerformHttpDone(c, outcome, latency) ==
    /\ HttpHandled(c, Classify(outcome), latency)
    /\ http_outcome' = [http_outcome EXCEPT ![c] = outcome]
    /\ UNCHANGED beyondPerform

\* finally, and the return to the caller
PerformReturn(c) ==
    /\ Return(c)
    /\ http_outcome' = [http_outcome EXCEPT ![c] = "unset"]
    /\ UNCHANGED beyondPerform

InitPerform ==
    /\ endpoints = [n \in Names |-> PostInit(Config(n, TierInitial(n)))]
    /\ global_semaphore = GlobalMaxInflight
    /\ active_rr_index = 0
    /\ pc = [c \in Calls |-> "idle"]
    /\ call_endpoint = [c \in Calls |-> NoEndpoint]
    /\ slot_acquired = [c \in Calls |-> FALSE]
    /\ result = [c \in Calls |-> "unset"]
    /\ trail = [n \in Names |-> <<>>]
    /\ feed = "any"
    /\ PerformInit
    /\ BeyondPerformInit

NextPerform ==
    \/ \E c \in PerformCalls, p \in 0..2 : RequestAttempt(c, p)
    \/ \E c \in PerformCalls, n \in Names : DirectRequest(c, n)
    \/ \E c \in PerformCalls : AcquireGlobal(c)
    \/ \E c \in PerformCalls : SlotGranted(c)
    \/ \E c \in PerformCalls : SlotSleep(c)
    \/ \E c \in PerformCalls : SlotWake(c)
    \/ \E c \in PerformCalls : SlotRefused(c)
    \/ \E c \in PerformCalls, o \in HttpOutcomes :
          PerformHttpDone(c, o, FastLatency)
    \/ \E c \in PerformCalls : PerformReturn(c)
    \/ Tick

SpecPerform == InitPerform /\ [][NextPerform]_vars

\* record_success has been called on the endpoint: one more success, the
\* consecutive failures reset and the cooldown cleared.
SuccessRecorded(before, after) ==
    /\ after.total_successes = before.total_successes + 1
    /\ after.total_failures = before.total_failures
    /\ after.consecutive_failures = 0
    /\ after.cooldown_until = 0

\* record_failure has been called on the endpoint: one more failure and
\* one more consecutive failure.
FailureRecorded(before, after) ==
    /\ after.total_failures = before.total_failures + 1
    /\ after.total_successes = before.total_successes
    /\ after.consecutive_failures = before.consecutive_failures + 1

\* C14, as stated: 200 with a JSON body returns the body and records a
\* success; 204 and 404 return None and record a success (cooldown
\* cleared, consecutive failures reset); every other status, a timeout, a
\* network error and a JSON-decode error return None and record a failure
\* (cooldown set).
C14_OnlyOkNoContentNotFoundSucceed ==
    [][\A c \in PerformCalls :
          (pc[c] = "http" /\ pc'[c] = "finally") =>
             LET outcome == http_outcome'[c]
                 before == endpoints[call_endpoint[c]]
                 after == endpoints'[call_endpoint[c]]
             IN  /\ outcome = "200" =>
                       /\ result'[c] = "body"
                       /\ SuccessRecorded(before, after)
                 /\ outcome \in {"204", "404"} =>
                       /\ result'[c] = "none"
                       /\ SuccessRecorded(before, after)
                 /\ outcome \notin {"200", "204", "404"} =>
                       /\ result'[c] = "none"
                       /\ FailureRecorded(before, after)
                       /\ after.cooldown_until > 0]_vars

\* C14, amended: a 2xx status other than 204 with a JSON body (200
\* included) returns the body and records a success; 204 and 404 return
\* None and record a success (cooldown cleared, consecutive failures
\* reset); every other status, a timeout, a network error and a
\* JSON-decode error return None and record a failure, which sets the
\* cooldown unless it is the failure that takes a priority-0 endpoint to
\* the disable threshold, which leaves the cooldown cleared.
C14_ClassifiedByStatus ==
    [][\A c \in PerformCalls :
          (pc[c] = "http" /\ pc'[c] = "finally") =>
             LET outcome == http_outcome'[c]
                 before == endpoints[call_endpoint[c]]
                 after == endpoints'[call_endpoint[c]]
                 spared ==
                    /\ before.config.priority = 0
                    /\ after.consecutive_failures >= FailureThreshold
             IN  /\ outcome \in {"200", "201"} =>
                       /\ result'[c] = "body"
                       /\ SuccessRecorded(before, after)
                 /\ outcome \in {"204", "404"} =>
                       /\ result'[c] = "none"
                       /\ SuccessRecorded(before, after)
                 /\ outcome \in {"500", "timeout", "error", "decode"} =>
                       /\ result'[c] = "none"
                       /\ FailureRecorded(before, after)
                       /\ after.cooldown_until > 0 <=> ~spared
                 /\ outcome \in HttpOutcomes]_vars

\* C14: a 404 has just been recorded as a success on an endpoint that was
\* cooling down after a failure, and None is being returned.
C14_Witness ==
    \E c \in PerformCalls :
        /\ pc[c] = "finally"
        /\ http_outcome[c] = "404"
        /\ result[c] = "none"
        /\ endpoints[call_endpoint[c]].total_failures > 0
        /\ endpoints[call_endpoint[c]].consecutive_failures = 0
        /\ endpoints[call_endpoint[c]].cooldown_until = 0

\* One request more is on record, a success and not a failure.
OneSuccess(before, after) ==
    /\ after.total_requests = before.total_requests + 1
    /\ after.total_successes = before.total_successes + 1
    /\ after.total_failures = before.total_failures

\* One request more is on record, a failure and not a success.
OneFailure(before, after) ==
    /\ after.total_requests = before.total_requests + 1
    /\ after.total_failures = before.total_failures + 1
    /\ after.total_successes = before.total_successes

\* What record_success and record_failure count on an endpoint.
Counters(s) ==
    <<s.total_requests, s.total_successes, s.total_failures,
      s.consecutive_successes, s.consecutive_failures>>

\* C38: every _perform_request call records exactly one success or failure
\* on its endpoint, when it comes to its finally block, whatever the
\* outcome (the slot refused, 204, 404, a timeout, a decode error, ...); it
\* returns only from there, and nothing else changes the counters; so
\* total_requests = total_successes + total_failures and at most one of
\* consecutive_successes and consecutive_failures is not 0.
C38_ExactlyOneRecordPerCall ==
    /\ [](\A n \in Names :
             /\ endpoints[n].total_requests =
                   endpoints[n].total_successes + endpoints[n].total_failures
             /\ ~(/\ endpoints[n].consecutive_successes > 0
                  /\ endpoints[n].consecutive_failures > 0))
    /\ [][/\ \A c \in PerformCalls :
                /\ (pc[c] # "finally" /\ pc'[c] = "finally") =>
                      LET before == endpoints[call_endpoint[c]]
                          after == endpoints'[call_endpoint[c]]
                      IN  /\ OneSuccess(before, after) \/ OneFailure(before, after)
                          /\ ~(OneSuccess(before, after) /\ OneFailure(before, after))
                          /\ OneSuccess(before, after) <=>
                                (/\ after.consecutive_successes =
                                       before.consecutive_successes + 1
                                 /\ after.consecutive_failures = 0)
                          /\ OneFailure(before, after) <=>
                                (/\ after.consecutive_failures =
                                       before.consecutive_failures + 1
                                 /\ after.consecutive_successes = 0)
                /\ (pc[c] # "idle" /\ pc'[c] = "idle") => pc[c] = "finally"
          /\ \A n \in Names :
                Counters(endpoints'[n]) # Counters(endpoints[n]) =>
                   \E c \in PerformCalls :
                      /\ call_endpoint[c] = n
                      /\ pc[c] # "finally"
                      /\ pc'[c] = "finally"]_vars

\* C38: a call is in its finally block after a body that did not decode,
\* which ended a run of successes on its endpoint, and the other call after
\* a 404, recorded as a success on the other endpoint.
C38_Witness ==
    \E c, d \in PerformCalls :
        /\ pc[c] = "finally"
        /\ pc[d] = "finally"
        /\ http_outcome[c] = "decode"
        /\ http_outcome[d] = "404"
        /\ call_endpoint[c] # call_endpoint[d]
        /\ endpoints[call_endpoint[c]].total_successes > 0
        /\ endpoints[call_endpoint[c]].consecutive_failures = 1
        /\ endpoints[call_endpoint[c]].consecutive_successes = 0
        /\ endpoints[call_endpoint[d]].consecutive_successes = 1

----------------------------------------------------------------------------
(* _perform_request under cancellation: the task of a call is cancelled     *)
(* (asyncio.wait_for of _request_with_total_timeout) while it is suspended  *)

\* A cancellation that leaves the function without running finally.
CancelledAt_Escapes(where) == "idle"

\* Where asyncio.CancelledError, raised at the await the call is suspended
\* in, takes the call: the acquire of the global semaphore stands before the
\* try block; acquire_slot, the request_delay sleep and client.get stand
\* inside it, no except clause catches the error (it is a BaseException),
\* and the finally block runs.
CancelledAt(where) == IF where = "global" THEN "idle" ELSE "finally"

\* The task of the call is cancelled while it waits for a permit, sleeps in
\* acquire_slot, or sleeps for request_delay or awaits client.get with its
\* slot taken.  http_outcome keeps where the call was cancelled.
Cancel(c) ==
    /\ \/ pc[c] = "global" /\ ~PermitFree(global_semaphore)
       \/ pc[c] \in {"sleep", "http"}
    /\ pc' = [pc EXCEPT ![c] = CancelledAt(pc[c])]
    /\ result' = [result EXCEPT ![c] =
                     IF CancelledAt(pc[c]) = "finally" THEN "cancelled"
                     ELSE "unset"]
    /\ call_endpoint' = [call_endpoint EXCEPT ![c] =
                            IF CancelledAt(pc[c]) = "finally" THEN @
                            ELSE NoEndpoint]
    /\ http_outcome' = [http_outcome EXCEPT ![c] =
                           CASE pc[c] = "global" -> "cancelled at global"
                             [] pc[c] = "sleep" -> "cancelled at sleep"
                             [] OTHER -> "cancelled at http"]
    /\ UNCHANGED <<endpoints, global_semaphore, active_rr_index,
                   slot_acquired, trail, feed, beyondPerform>>

\* finally, and the call is over: the value goes to the caller, or the
\* CancelledError goes on to it
CancelFinally(c) ==
    /\ Return(c)
    /\ http_outcome' = [http_outcome EXCEPT ![c] =
                           IF result[c] = "cancelled" THEN @ ELSE "unset"]
    /\ UNCHANGED beyondPerform

\* What the HTTP calls that are not cancelled come to.
CancelOutcomes == {"200", "timeout"}

NextCancel ==
    \/ \E c \in Calls, p \in 0..2 : RequestAttempt(c, p)
    \/ \E c \in Calls, n \in Names : DirectRequest(c, n)
    \/ \E c \in Calls : AcquireGlobal(c)
    \/ \E c \in Calls : SlotGranted(c)
    \/ \E c \in Calls : SlotSleep(c)
    \/ \E c \in Calls : SlotWake(c)
    \/ \E c \in Calls : SlotRefused(c)
    \/ \E c \in Calls, o \in CancelOutcomes :
          PerformHttpDone(c, o, FastLatency)
    \/ \E c \in Calls : Cancel(c)
    \/ \E c \in Calls : CancelFinally(c)
    \/ Tick

SpecCancel == InitPerform /\ [][NextCancel]_vars

\* C35: a call cancelled while it waits for an endpoint slot, sleeps for
\* request_delay or awaits the HTTP GET goes through finally, which gives
\* back the global permit and the slot the call holds; the free permits are
\* always those no call in progress holds and active_slots counts the
\* holders of a slot, so that with every call over the semaphore is at
\* global_max_inflight and every active_slots is 0.
C35_CancelledCallReleases ==
    /\ [](/\ global_semaphore + Cardinality(Holding) = GlobalMaxInflight
          /\ \A n \in Names :
                endpoints[n].active_slots = Cardinality(SlotHolders(n))
          /\ (\A c \in Calls : pc[c] = "idle") =>
                /\ global_semaphore = GlobalMaxInflight
                /\ \A n \in Names : endpoints[n].active_slots = 0)
    /\ [][\A c \in Calls :
             /\ (pc[c] \in {"sleep", "http"} /\ result'[c] = "cancelled") =>
                   pc'[c] = "finally"
             /\ (pc[c] = "finally" /\ result[c] = "cancelled"
                    /\ pc'[c] # "finally") =>
                   /\ global_semaphore' = global_semaphore + 1
                   /\ endpoints'[call_endpoint[c]].active_slots =
                         endpoints[call_endpoint[c]].active_slots
                            - (IF slot_acquired[c] THEN 1 ELSE 0)
                   /\ ~slot_acquired'[c]]_vars

\* C35: one call was cancelled inside the HTTP GET, with its slot taken,
\* the other in the sleep of acquire_slot; both are over, every permit is
\* free and no slot is taken.
C35_Witness ==
    /\ \A c \in Calls : pc[c] = "idle"
    /\ \E c, d \in Calls :
          /\ http_outcome[c] = "cancelled at http"
          /\ http_outcome[d] = "cancelled at sleep"
    /\ global_semaphore = GlobalMaxInflight
    /\ \A n \in Names : endpoints[n].active_slots = 0

----------------------------------------------------------------------------
(* BlockchainDataService: fetch_transaction and fetch_transactions_batch    *)
(* over the Redis cache, the mempool datasource and the Electrum fallback   *)

MaxBatch == 3               \* longest txids list of a batch

\* block_height of a transaction that is in no block
NoHeight == "null"

\* What mempool.get_transaction(txid) comes to: the body of a confirmed or
\* of an unconfirmed transaction, None, or asyncio.TimeoutError raised by
\* _request_with_total_timeout.
MempoolReplies == {"confirmed", "unconfirmed", "none", "timeout"}

\* What the Electrum client answers for a txid.
ElectrumReplies == {"confirmed", "unconfirmed", "none"}

\* The body of /tx/{txid} in the mempool.space format
MempoolBody(reply) ==
    CASE reply = "confirmed" ->
            [status |-> [confirmed |-> TRUE, block_height |-> "0"]]
      [] reply = "unconfirmed" -> [status |-> [confirmed |-> FALSE]]
      [] OTHER -> None

\* The verbose blockchain.transaction.get answer of Electrum
ElectrumBody(reply) ==
    CASE reply = "confirmed" -> [confirmations |-> "1", blockheight |-> "0"]
      [] reply = "unconfirmed" -> [confirmations |-> "0"]
      [] OTHER -> None

\* d.get(key), None standing as null
GetHeight(d, key) == IF key \in DOMAIN d THEN d[key] ELSE NoHeight

\* _parse_mempool_transaction: block_height = status.get("block_height")
ParseMempoolTransaction(txid, data) ==
    [txid |-> txid, block_height |-> GetHeight(data.status, "block_height")]

\* _parse_transaction: block_height = tx_data.get("blockheight")
ParseTransaction(txid, tx_data) ==
    [txid |-> txid, block_height |-> GetHeight(tx_data, "blockheight")]

\* transaction.model_dump_json()
ModelDumpJson(tx) ==
    [json |-> "Transaction", txid |-> tx.txid,
     block_height |-> tx.block_height]

\* json.loads(cached)
JsonLoads(cached) ==
    [txid |-> cached.txid, block_height |-> cached.block_height]

\* _get_cache: None without Redis and when the read fails (readable: Redis
\* answers the reads of the step)
GetCache(store, txid, readable) == IF readable THEN store[txid] ELSE None

\* _set_cache: nothing without Redis and when the write fails (writable:
\* Redis takes the writes of the step)
SetCache(store, txid, value, writable) ==
    IF writable THEN [store EXCEPT ![txid] = value] ELSE store

\* A lookup that takes every entry for a hit.
CacheHit_AnyEntry(cached) == cached # None

\* if cached: ... data.get("block_height") is None -> re-fetch
CacheHit(cached) ==
    /\ cached # None
    /\ GetHeight(JsonLoads(cached), "block_height") # NoHeight

\* fetch_transaction up to the cache lookup: the cached record is returned
\* or mempool.get_transaction is awaited.
FetchTransaction(txid, readable) ==
    /\ ft.pc = "idle"
    /\ bt.pc = "idle"
    /\ LET cached == GetCache(cache, txid, readable)
       IN  ft' = IF CacheHit(cached)
                 THEN [FtIdle EXCEPT !.pc = "done", !.txid = txid,
                                     !.cached = cached,
                                     !.result = JsonLoads(cached)]
                 ELSE [FtIdle EXCEPT !.pc = "mempool", !.txid = txid,
                                     !.cached = cached]
    /\ UNCHANGED <<cache, bt, beyondData>>

\* fetch_transaction: mempool.get_transaction has ended
FetchMempool(reply, writable) ==
    /\ ft.pc = "mempool"
    /\ LET data == MempoolBody(reply)
           transaction == ParseMempoolTransaction(ft.txid, data)
       IN  IF reply = "timeout"
           THEN /\ ft' = [ft EXCEPT !.pc = "done", !.requests = @ + 1,
                                    !.result = [error |-> "TimeoutError"]]
                /\ cache' = cache
           ELSE IF data # None
           THEN /\ ft' = [ft EXCEPT !.pc = "done", !.requests = @ + 1,
                                    !.stored = ModelDumpJson(transaction),
                                    !.written = writable,
                                    !.result = transaction]
                /\ cache' = SetCache(cache, ft.txid,
                                     ModelDumpJson(transaction), writable)
           ELSE /\ ft' = [ft EXCEPT !.pc = "electrum", !.requests = @ + 1]
                /\ cache' = cache
    /\ UNCHANGED <<bt, beyondData>>

\* fetch_transaction: electrum.get_transaction has ended
FetchElectrum(reply, writable) ==
    /\ ft.pc = "electrum"
    /\ LET tx_data == ElectrumBody(reply)
           transaction == ParseTransaction(ft.txid, tx_data)
       IN  IF tx_data = None
           THEN /\ ft' = [ft EXCEPT !.pc = "done", !.requests = @ + 1,
                                    !.result = [error |-> "ValueError"]]
                /\ cache' = cache
           ELSE /\ ft' = [ft EXCEPT !.pc = "done", !.requests = @ + 1,
                                    !.stored = ModelDumpJson(transaction),
                                    !.written = writable,
                                    !.result = transaction]
                /\ cache' = SetCache(cache, ft.txid,
                                     ModelDumpJson(transaction), writable)
    /\ UNCHANGED <<bt, beyondData>>

\* The caller has the transaction or the exception.
FetchReturn ==
    /\ ft.pc = "done"
    /\ ft' = FtIdle
    /\ UNCHANGED <<cache, bt, beyondData>>

\* A deduplication that keeps every item.
DedupePreserveOrder_Keep(items) ==
    [unique |-> items,
     index_map |-> [i \in 1..Len(items) |-> <<i, i>>]]

\* _dedupe_preserve_order (indices from 1)
DedupePreserveOrder(items) ==
    LET firsts[i \in 0..Len(items)] ==
            IF i = 0 THEN <<>>
            ELSE IF \E k \in 1..Len(firsts[i - 1]) :
                        firsts[i - 1][k] = items[i]
                 THEN firsts[i - 1]
                 ELSE Append(firsts[i - 1], items[i])
        unique == firsts[Len(items)]
        seen(item) == CHOOSE k \in 1..Len(unique) : unique[k] = item
    IN  [unique |-> unique,
         index_map |-> [i \in 1..Len(items) |-> <<i, seen(items[i])>>]]

\* The Transaction objects made of the parsed records, one after the other,
\* and put into result_map under their txids.
RECURSIVE PutAll(_, _, _, _)
PutAll(result_map, made, txids, parsed) ==
    IF txids = <<>> THEN [result_map |-> result_map, made |-> made]
    ELSE IF parsed[Head(txids)] = None
         THEN PutAll(result_map, made, Tail(txids), parsed)
         ELSE PutAll([result_map EXCEPT ![Head(txids)] =
                          [object |-> made + 1, tx |-> parsed[Head(txids)]]],
                     made + 1, Tail(txids), parsed)

\* The values written with _set_cache, one after the other.
RECURSIVE SetAll(_, _, _, _)
SetAll(store, txids, parsed, writable) ==
    IF txids = <<>> THEN store
    ELSE IF parsed[Head(txids)] = None
         THEN SetAll(store, Tail(txids), parsed, writable)
         ELSE SetAll(SetCache(store, Head(txids),
                              ModelDumpJson(parsed[Head(txids)]),
                              writable),
                     Tail(txids), parsed, writable)

\* How often each txid of the list is asked for.
Asked(txids) ==
    [t \in Txids |-> Cardinality({i \in 1..Len(txids) : txids[i] = t})]

\* The reply for a txid, None for one that was not asked for.
ReplyFor(replies, txid) ==
    IF txid \in DOMAIN replies THEN replies[txid] ELSE "none"

\* A gather that gives up every transaction when one request times out.
MempoolGetTransactionsBatch_FailFast(txids, replies) ==
    LET txid_list == DedupePreserveOrder(txids).unique
    IN  [asked |-> txid_list,
         results |->
            [i \in 1..Len(txids) |->
                IF \E k \in 1..Len(txids) :
                      ReplyFor(replies, txids[k]) = "timeout"
                THEN None
                ELSE MempoolBody(ReplyFor(replies, txids[i]))]]

\* MempoolDataSource.get_transactions_batch: one get_transaction per
\* distinct txid, gathered with return_exceptions=True; an exception counts
\* as None.
MempoolGetTransactionsBatch(txids, replies) ==
    LET txid_list == DedupePreserveOrder(txids).unique
    IN  [asked |-> txid_list,
         results |->
            [i \in 1..Len(txids) |->
                MempoolBody(ReplyFor(replies, txids[i]))]]

\* fetch_transactions_batch: map back to original order
MapBack(b) ==
    [k \in 1..Len(b.txid_positions) |->
        b.result_map[b.unique_txids[b.txid_positions[k][2]]]]

\* fetch_transactions_batch returns.
BatchComplete(b) == [b EXCEPT !.pc = "done", !.result = MapBack(b)]

\* fetch_transactions_batch up to the end of the cache check
BatchCheckCache(txids, seen) ==
    LET deduped == DedupePreserveOrder(txids)
        unique_txids == deduped.unique
        hit == [t \in Txids |->
                   IF CacheHit(seen[t]) THEN JsonLoads(seen[t]) ELSE None]
        put == PutAll([t \in Txids |-> None], 0, unique_txids, hit)
        checked ==
            [BtIdle EXCEPT
                !.pc = "mempool",
                !.txids = txids,
                !.unique_txids = unique_txids,
                !.txid_positions = deduped.index_map,
                !.seen = seen,
                !.result_map = put.result_map,
                !.made = put.made,
                !.uncached_txids =
                    SelectSeq(unique_txids, LAMBDA t : hit[t] = None),
                !.mempool_asked = Asked(<<>>),
                !.electrum_asked = Asked(<<>>)]
    IN  IF checked.uncached_txids = <<>> THEN BatchComplete(checked)
        ELSE checked

\* fetch_transactions_batch from mempool.get_transactions_batch to the
\* Electrum fallback
BatchAfterMempool(b, replies) ==
    LET fetched == MempoolGetTransactionsBatch(b.uncached_txids, replies)
        position(t) ==
            CHOOSE i \in 1..Len(b.uncached_txids) : b.uncached_txids[i] = t
        parsed ==
            [t \in Txids |->
                IF \E i \in 1..Len(b.uncached_txids) : b.uncached_txids[i] = t
                THEN IF fetched.results[position(t)] = None THEN None
                     ELSE ParseMempoolTransaction(
                              t, fetched.results[position(t)])
                ELSE None]
        put == PutAll(b.result_map, b.made, b.uncached_txids, parsed)
        after ==
            [b EXCEPT
                !.pc = "electrum",
                !.result_map = put.result_map,
                !.made = put.made,
                !.failed_txids =
                    SelectSeq(b.uncached_txids, LAMBDA t : parsed[t] = None),
                !.mempool_asked = Asked(fetched.asked),
                !.mempool_replies = replies]
    IN  [parsed |-> parsed,
         b |-> IF after.failed_txids = <<>> THEN BatchComplete(after)
               ELSE after]

\* fetch_transactions_batch from electrum.get_transactions_batch to the end
BatchAfterElectrum(b, replies) ==
    LET parsed ==
            [t \in Txids |->
                IF ElectrumBody(ReplyFor(replies, t)) = None THEN None
                ELSE ParseTransaction(t, ElectrumBody(ReplyFor(replies, t)))]
        put == PutAll(b.result_map, b.made, b.failed_txids, parsed)
    IN  [parsed |-> parsed,
         b |-> BatchComplete(
                  [b EXCEPT !.result_map = put.result_map,
                            !.made = put.made,
                            !.electrum_asked = Asked(b.failed_txids),
                            !.electrum_replies = replies])]

\* The txids lists of the callers, one of each pattern of repetition (the
\* first txid is "ta", the next new one "tb", then "tc"; the cache holds any
\* entries for them).
TxidOrder == <<"ta", "tb", "tc">>

BatchInputs ==
    {txids \in UNION {[1..n -> 1..Len(TxidOrder)] : n \in 0..MaxBatch} :
        \A i \in 1..Len(txids) :
            \A k \in 1..(txids[i] - 1) : \E j \in 1..(i - 1) : txids[j] = k}

\* fetch_transactions_batch: deduplication and cache check
BatchStart(txids, readable) ==
    /\ bt.pc = "idle"
    /\ ft.pc = "idle"
    /\ bt' = BatchCheckCache(
                txids, [t \in Txids |-> GetCache(cache, t, readable)])
    /\ UNCHANGED <<cache, ft, beyondData>>

\* fetch_transactions_batch: mempool.get_transactions_batch has ended
BatchMempool(replies, writable) ==
    /\ bt.pc = "mempool"
    /\ LET after == BatchAfterMempool(bt, replies)
       IN  /\ bt' = after.b
           /\ cache' = SetAll(cache, bt.uncached_txids, after.parsed,
                              writable)
    /\ UNCHANGED <<ft, beyondData>>

\* fetch_transactions_batch: electrum.get_transactions_batch has ended
BatchElectrum(replies, writable) ==
    /\ bt.pc = "electrum"
    /\ LET after == BatchAfterElectrum(bt, replies)
       IN  /\ bt' = after.b
           /\ cache' = SetAll(cache, bt.failed_txids, after.parsed, writable)
    /\ UNCHANGED <<ft, beyondData>>

\* The caller has the list.
BatchReturn ==
    /\ bt.pc = "done"
    /\ bt' = BtIdle
    /\ UNCHANGED <<cache, ft, beyondData>>

\* The TTL of an entry (setex) runs out.
CacheExpire(txid) ==
    /\ ft.pc = "idle"
    /\ bt.pc = "idle"
    /\ cache[txid] # None
    /\ cache' = [cache EXCEPT ![txid] = None]
    /\ UNCHANGED <<ft, bt, beyondData>>

InitData ==
    /\ DataInit
    /\ BeyondDataInit

NextData ==
    \/ \E t \in Txids, readable \in BOOLEAN : FetchTransaction(t, readable)
    \/ \E reply \in MempoolReplies, writable \in BOOLEAN :
          FetchMempool(reply, writable)
    \/ \E reply \in ElectrumReplies, writable \in BOOLEAN :
          FetchElectrum(reply, writable)
    \/ FetchReturn
    \/ \E txids \in BatchInputs, readable \in BOOLEAN :
          BatchStart([i \in 1..Len(txids) |-> TxidOrder[txids[i]]], readable)
    \/ \E replies \in [Range(bt.uncached_txids) -> MempoolReplies],
          writable \in BOOLEAN : BatchMempool(replies, writable)
    \/ \E replies \in [Range(bt.failed_txids) -> ElectrumReplies],
          writable \in BOOLEAN : BatchElectrum(replies, writable)
    \/ BatchReturn
    \/ \E t \in Txids : CacheExpire(t)

SpecData == InitData /\ [][NextData]_vars

----------------------------------------------------------------------------
(* MempoolDataSource.get_address_txids and                                  *)
(* BlockchainDataService.fetch_address_history, for one address             *)

DefaultPageSize == 2        \* mempool_default_page_size
DefaultMaxResults == 2      \* max_results the callers pass (500 in the code)
MaxResults == 2             \* largest max_results of a direct call
MaxExpected == 2            \* largest tx_count of an address summary
MaxPage == 3                \* longest page a server returns
PageLimit == 4              \* pages after which the pagination stops (200)

\* An optional integer: <<>> for None, <<n>> for n.
Some(n) == <<n>>

\* x or default
OrElse(opt, default) ==
    IF opt = <<>> \/ opt[1] = 0 THEN default ELSE opt[1]

\* "txid" of an entry that has none (null, no such key, not a dict)
NullTxid == "null"

\* The transactions of the address.
HistoryTxids == {"ta", "tb"}

\* The entries of a page of /address/{address}/txs.
AddressEntries == {[txid |-> t] : t \in HistoryTxids \cup {NullTxid}}

\* The pages a server returns, whatever limit was asked for.
Pages == UNION {[1..n -> AddressEntries] : n \in 1..MaxPage}

\* get_address_txids: for entry in data, the txids not seen yet are
\* appended to collected
RECURSIVE CollectPage(_, _)
CollectPage(collected, data) ==
    IF data = <<>> THEN collected
    ELSE LET txid == Head(data).txid
         IN  IF txid = NullTxid \/ txid \in Range(collected)
             THEN CollectPage(collected, Tail(data))
             ELSE CollectPage(Append(collected, txid), Tail(data))

\* get_address_txids up to the first page request
AddressTxidsStart(max_results, expected_total) ==
    LET effective_max ==
            IF expected_total # <<>> THEN Min(max_results, expected_total[1])
            ELSE max_results
        default_page_size == Max(1, Min(DefaultPageSize, max_results))
    IN  [GaIdle EXCEPT
            !.pc = IF 0 < effective_max THEN "page" ELSE "done",
            !.max_results = max_results,
            !.expected_total = expected_total,
            !.effective_max = effective_max,
            !.default_page_size = default_page_size,
            !.limit = Min(effective_max, default_page_size)]

\* get_address_txids: the servers tried for the page gave no data, the
\* pagination stops
AddressNoData(g) == [g EXCEPT !.pc = "done"]

\* A turn of the pagination loop that consumes the page without moving on.
AddressPageTurn_NoAdvance(g, data) ==
    LET collected == CollectPage(g.collected, data)
        reached ==
            /\ g.expected_total # <<>>
            /\ g.expected_total[1] <= g.max_results
            /\ Len(collected) >= g.expected_total[1]
        stop ==
            \/ Len(collected) >= g.effective_max
            \/ g.page >= PageLimit
            \/ g.offset > g.max_results * 2
    IN  IF reached
        THEN [g EXCEPT !.pc = "done", !.collected = collected]
        ELSE [g EXCEPT
                !.pc = IF stop THEN "done" ELSE "page",
                !.collected = collected,
                !.limit = IF stop THEN @
                          ELSE Min(g.effective_max - Len(collected),
                                   g.default_page_size)]

\* get_address_txids: one turn of the pagination loop on the page a server
\* returned
AddressPageTurn(g, data) ==
    LET collected == CollectPage(g.collected, data)
        page_size == Len(data)
        reached ==
            /\ g.expected_total # <<>>
            /\ g.expected_total[1] <= g.max_results
            /\ Len(collected) >= g.expected_total[1]
        offset == g.offset + page_size
        page == g.page + 1
        stop ==
            \/ Len(collected) >= g.effective_max
            \/ page >= PageLimit
            \/ offset > g.max_results * 2
    IN  IF reached
        THEN [g EXCEPT !.pc = "done", !.collected = collected]
        ELSE [g EXCEPT
                !.pc = IF stop THEN "done" ELSE "page",
                !.collected = collected,
                !.offset = offset,
                !.page = page,
                !.limit = IF stop THEN @
                          ELSE Min(g.effective_max - Len(collected),
                                   g.default_page_size)]

\* get_address_txids is called by another caller (xpub_service,
\* get_address_summary).
GetAddressTxids(max_results, expected_total) ==
    /\ fh.pc = "idle"
    /\ ga.pc = "idle"
    /\ ga' = AddressTxidsStart(max_results, expected_total)
    /\ UNCHANGED <<addr_cache, fh, beyondAddress>>

\* A server has returned a page with entries.
AddressPage(data) ==
    /\ ga.pc = "page"
    /\ ga' = AddressPageTurn(ga, data)
    /\ UNCHANGED <<addr_cache, fh, beyondAddress>>

\* No server has returned a list with entries.
AddressPagesEnd ==
    /\ ga.pc = "page"
    /\ ga' = AddressNoData(ga)
    /\ UNCHANGED <<addr_cache, fh, beyondAddress>>

\* get_address_txids returns collected to the other caller.
AddressTxidsReturn ==
    /\ fh.pc = "idle"
    /\ ga.pc = "done"
    /\ ga' = GaIdle
    /\ UNCHANGED <<addr_cache, fh, beyondAddress>>

\* fetch_address_history(address) or, as stream_trace calls it,
\* fetch_address_history(address, max_results=K), up to the address summary:
\* the signature has no max_results, so the call with it raises TypeError;
\* otherwise the cached list is returned or mempool.get_address_summary is
\* awaited.
FetchAddressHistory(given, readable) ==
    /\ fh.pc = "idle"
    /\ ga.pc = "idle"
    /\ fh' = IF given # <<>>
             THEN [FhIdle EXCEPT !.pc = "done", !.given = given,
                                 !.raised = "TypeError"]
             ELSE IF readable /\ addr_cache # <<>>
             THEN [FhIdle EXCEPT !.pc = "done", !.result = addr_cache[1]]
             ELSE [FhIdle EXCEPT !.pc = "summary"]
    /\ UNCHANGED <<addr_cache, ga, beyondAddress>>

\* fetch_address_history: the summaries are in (expected_count is None when
\* no priority gave one); get_address_txids is called with priority 0.
AddressSummary(expected_count) ==
    /\ fh.pc = "summary"
    /\ fh' = [fh EXCEPT
                !.pc = "txids",
                !.expected_count = expected_count,
                !.max_results = OrElse(expected_count, DefaultMaxResults),
                !.priority = 0]
    /\ ga' = AddressTxidsStart(OrElse(expected_count, DefaultMaxResults),
                               <<>>)
    /\ UNCHANGED <<addr_cache, beyondAddress>>

\* fetch_address_history: get_address_txids has returned txids for the
\* priority; the list is returned, the next priority is asked, or the
\* Electrum fallback is taken.
AddressTxidsBack(writable) ==
    /\ fh.pc = "txids"
    /\ ga.pc = "done"
    /\ LET txids == ga.collected
           best_txids ==
               IF Len(txids) > Len(fh.best_txids) THEN txids
               ELSE fh.best_txids
           expected == OrElse(fh.expected_count, 0)
           enough == txids # <<>> /\ expected > 0 /\ Len(txids) >= expected
           last == fh.priority = 2
       IN  IF enough
           THEN /\ fh' = [fh EXCEPT !.pc = "done", !.best_txids = best_txids,
                                    !.result = txids]
                /\ addr_cache' = IF writable THEN <<txids>> ELSE addr_cache
                /\ ga' = GaIdle
           ELSE IF ~last
           THEN /\ fh' = [fh EXCEPT !.priority = @ + 1,
                                    !.best_txids = best_txids]
                /\ addr_cache' = addr_cache
                /\ ga' = AddressTxidsStart(fh.max_results, <<>>)
           ELSE IF best_txids # <<>>
                   /\ ~(expected > 0 /\ Len(best_txids) < expected)
           THEN /\ fh' = [fh EXCEPT !.pc = "done", !.best_txids = best_txids,
                                    !.result = best_txids]
                /\ addr_cache' =
                      IF writable THEN <<best_txids>> ELSE addr_cache
                /\ ga' = GaIdle
           ELSE /\ fh' = [fh EXCEPT !.pc = "electrum",
                                    !.best_txids = best_txids]
                /\ addr_cache' = addr_cache
                /\ ga' = GaIdle
    /\ UNCHANGED beyondAddress

\* The histories Electrum returns: each transaction once.
ElectrumHistories ==
    {h \in UNION {[1..n -> HistoryTxids] : n \in 0..MaxPage} :
        \A i, j \in 1..Len(h) : h[i] = h[j] => i = j}

\* fetch_address_history: electrum.get_history has ended
AddressElectrum(history, writable) ==
    /\ fh.pc = "electrum"
    /\ fh' = [fh EXCEPT !.pc = "done", !.result = history]
    /\ addr_cache' = IF writable THEN <<history>> ELSE addr_cache
    /\ UNCHANGED <<ga, beyondAddress>>

\* The caller has the list.
AddressHistoryReturn ==
    /\ fh.pc = "done"
    /\ fh' = FhIdle
    /\ UNCHANGED <<addr_cache, ga, beyondAddress>>

InitAddress ==
    /\ AddressInit
    /\ BeyondAddressInit

NextAddress ==
    \/ \E max_results \in 1..MaxResults,
          expected_total \in {<<>>, Some(MaxExpected)} :
          GetAddressTxids(max_results, expected_total)
    \/ \E data \in Pages : AddressPage(data)
    \/ AddressPagesEnd
    \/ AddressTxidsReturn
    \/ \E given \in {<<>>} \cup {Some(k) : k \in 1..MaxResults},
          readable \in BOOLEAN :
          FetchAddressHistory(given, readable)
    \/ \E expected_count \in {<<>>} \cup {Some(n) : n \in 0..MaxExpected} :
          AddressSummary(expected_count)
    \/ \E writable \in BOOLEAN : AddressTxidsBack(writable)
    \/ \E history \in ElectrumHistories, writable \in BOOLEAN :
          AddressElectrum(history, writable)
    \/ AddressHistoryReturn

SpecAddress == InitAddress /\ [][NextAddress]_vars

\* The request for a page is answered: a server returns entries, or every
\* server tried has returned nothing or failed.
AddressPageAnswered ==
    \/ \E data \in Pages : AddressPage(data)
    \/ AddressPagesEnd

\* Every _perform_request of the pagination returns, so that every page
\* request is answered.
SpecAddressFair == SpecAddress /\ WF_vars(AddressPageAnswered)

----------------------------------------------------------------------------
(* Claims on fetch_transaction and fetch_transactions_batch (SpecData)      *)

\* C15: fetch_transaction returns the cached record with no upstream
\* request exactly when the cache lookup yields an entry whose block_height
\* is not null; otherwise (no entry, or an entry with a null block_height)
\* it asks upstream, and the transaction it then returns is the one it
\* hands to _set_cache, which replaces the entry.
C15_CachedIffEntryWithBlockHeight ==
    ft.pc = "done" =>
        LET entry_with_height ==
                /\ ft.cached # None
                /\ ft.cached.block_height # NoHeight
            from_cache ==
                /\ ft.requests = 0
                /\ ft.cached # None
                /\ ft.result = [txid |-> ft.cached.txid,
                                block_height |-> ft.cached.block_height]
            returned == "txid" \in DOMAIN ft.result
        IN  /\ from_cache <=> entry_with_height
            /\ ft.requests = 0 <=> entry_with_height
            /\ (~entry_with_height /\ returned) =>
                  /\ ft.result.txid = ft.txid
                  /\ ft.stored = [json |-> "Transaction",
                                  txid |-> ft.result.txid,
                                  block_height |-> ft.result.block_height]
                  /\ ft.written => cache[ft.txid] = ft.stored

\* C15: an entry with a null block_height was found, the transaction was
\* fetched again and the entry now holds it with its block height.
C15_Witness ==
    /\ ft.pc = "done"
    /\ ft.cached # None
    /\ ft.cached.block_height = NoHeight
    /\ ft.requests > 0
    /\ "txid" \in DOMAIN ft.result
    /\ ft.result.block_height # NoHeight
    /\ cache[ft.txid] # None
    /\ cache[ft.txid].block_height = ft.result.block_height

\* The txid of the batch was found in the cache with a block height or
\* answered with a transaction by the mempool datasource or by Electrum.
Obtained(txid) ==
    \/ /\ bt.seen[txid] # None
       /\ bt.seen[txid].block_height # NoHeight
    \/ ReplyFor(bt.mempool_replies, txid) \in {"confirmed", "unconfirmed"}
    \/ ReplyFor(bt.electrum_replies, txid) \in {"confirmed", "unconfirmed"}

\* C16: fetch_transactions_batch returns a list as long as txids, in the
\* order of txids: position i holds the Transaction of txids[i], or None
\* when it was not obtained; equal txids share one Transaction object; and
\* each distinct txid is asked for at most once at the mempool datasource
\* and at most once at the Electrum fallback.
C16_BatchKeepsOrderSharesObjectsFetchesOnce ==
    bt.pc = "done" =>
        /\ Len(bt.result) = Len(bt.txids)
        /\ \A i \in 1..Len(bt.txids) :
              /\ bt.result[i] = None <=> ~Obtained(bt.txids[i])
              /\ bt.result[i] # None => bt.result[i].tx.txid = bt.txids[i]
        /\ \A i, j \in 1..Len(bt.txids) :
              bt.result[i] # None =>
                 (bt.txids[i] = bt.txids[j] <=>
                     /\ bt.result[j] # None
                     /\ bt.result[i].object = bt.result[j].object)
        /\ \A t \in Txids :
              /\ bt.mempool_asked[t] <= 1
              /\ bt.electrum_asked[t] <= 1
              /\ t \notin Range(bt.txids) =>
                    bt.mempool_asked[t] + bt.electrum_asked[t] = 0

\* C16: a batch of the shape [a, b, a] has returned [Tx_a, None, Tx_a].
C16_Witness ==
    /\ bt.pc = "done"
    /\ \E i, j, k \in 1..Len(bt.txids) :
          /\ i < k
          /\ k < j
          /\ bt.txids[i] = bt.txids[j]
          /\ bt.result[i] # None
          /\ bt.result[i] = bt.result[j]
          /\ bt.result[k] = None

\* fetch_transactions_batch run from the cache check to the end on given
\* cache lookups and replies.
RunBatch(txids, seen, mempool_replies, electrum_replies) ==
    LET checked == BatchCheckCache(txids, seen)
        fetched ==
            IF checked.pc = "mempool"
            THEN BatchAfterMempool(checked, mempool_replies).b
            ELSE checked
        ended ==
            IF fetched.pc = "electrum"
            THEN BatchAfterElectrum(fetched, electrum_replies).b
            ELSE fetched
    IN  ended.result

\* The records of a result list.
Transactions(results) ==
    [i \in 1..Len(results) |->
        IF results[i] = None THEN None ELSE results[i].tx]

\* The entries of a list at the positions where txids is not the given one.
Others(entries, txids, txid) ==
    LET kept[i \in 0..Len(txids)] ==
            IF i = 0 THEN <<>>
            ELSE IF txids[i] = txid THEN kept[i - 1]
                 ELSE Append(kept[i - 1], entries[i])
    IN  kept[Len(txids)]

\* The fetch of the txid failed at every upstream.
FailsEverywhere(txid) ==
    /\ ~(bt.seen[txid] # None /\ bt.seen[txid].block_height # NoHeight)
    /\ ReplyFor(bt.mempool_replies, txid) \in {"none", "timeout"}
    /\ ReplyFor(bt.electrum_replies, txid) = "none"

----------------------------------------------------------------------------
(* Claims on fetch_address_history                                          *)

\* The list has no txid twice and no null in it.
DistinctNonNull(txids) ==
    /\ \A i, j \in 1..Len(txids) : txids[i] = txids[j] => i = j
    /\ \A i \in 1..Len(txids) : txids[i] # NullTxid

\* C18: fetch_address_history(addr, max_results=K) returns a list of at most
\* K txids, pairwise distinct and none of them null, whatever the upstream
\* servers answer.
C18_AtMostKDistinctNonNull ==
    (fh.pc = "done" /\ fh.given # <<>>) =>
        /\ fh.raised = ""
        /\ Len(fh.result) <= fh.given[1]
        /\ DistinctNonNull(fh.result)

----------------------------------------------------------------------------
(* Claim on the pagination of get_address_txids (SpecAddressFair)           *)

\* C36: get_address_txids terminates whatever the servers answer (pages of
\* seen txids only, pages longer than the limit, no data): a page is asked
\* for only while fewer than the page limit (200) have been consumed and the
\* consumed offset is at most 2 x max_results, every page that does not end
\* the pagination adds one to the pages and at least one to the offset, and
\* every pagination under way comes to its end.
C36_PaginationTerminates ==
    /\ [](/\ ga.page <= PageLimit
          /\ ga.pc = "page" =>
                /\ ga.page < PageLimit
                /\ ga.offset <= 2 * ga.max_results
                /\ Len(ga.collected) < ga.effective_max)
    /\ [][(ga.pc = "page" /\ ga'.pc = "page") =>
             /\ ga'.page = ga.page + 1
             /\ ga'.offset > ga.offset]_vars
    /\ (ga.pc = "page") ~> (ga.pc = "done")

\* C36: a pagination has ended short of effective_max: pages that brought
\* nothing new took it to the page limit, and the last of them, longer than
\* the limit asked for, took the offset over 2 x max_results.
C36_Witness ==
    /\ ga.pc = "done"
    /\ ga.page = PageLimit
    /\ ga.offset > 2 * ga.max_results
    /\ Len(ga.collected) < ga.effective_max
    /\ ga.collected # <<>>

----------------------------------------------------------------------------
(* TraceOrchestrator.trace_utxo_backward: the recursive walk over the       *)
(* inputs and the graph it returns                                          *)

MaxDepth == 3               \* largest max_depth (hops_before) of a trace
MaxInputs == 2              \* most inputs of a transaction

\* inp.txid of a coinbase input ("0" * 64)
Coinbase == "coinbase"

\* The transactions of the chain, the newest first: a transaction spends
\* outputs of older transactions only.
TraceOrder == <<"ta", "tb", "tc">>

\* The address the output of a transaction pays to ("" for an output
\* without an address); an input that spends the output carries it.
OutputAddress ==
    ("ta" :> "a1") @@ ("tb" :> "a2") @@ ("tc" :> "") @@ (Coinbase :> "")

\* The transactions a transaction can spend from.
Older(txid) ==
    LET at == CHOOSE i \in 1..Len(TraceOrder) : TraceOrder[i] = txid
    IN  {TraceOrder[i] : i \in (at + 1)..Len(TraceOrder)} \cup {Coinbase}

\* The transactions fetch_transaction can return for a txid: the inputs in
\* their order, the outputs, and what detect_coinjoin says of it.
TransactionsOf(txid) ==
    {[txid |-> txid,
      inputs |-> [i \in 1..Len(spent) |->
                    [txid |-> spent[i], address |-> OutputAddress[spent[i]]]],
      outputs |-> <<[address |-> OutputAddress[txid]]>>,
      coinjoin |-> verdict] :
        spent \in UNION {[1..n -> Older(txid)] : n \in 1..MaxInputs},
        verdict \in BOOLEAN}

\* confidence of an edge, in tenths
Certain == 10
CommonInput == 9
ThroughCoinJoin == 3

\* confidence_threshold of a trace, in tenths
Thresholds == {5, 10}

TxNodeId(txid) == <<"tx", txid>>
AddrNodeId(address) == <<"addr", address>>

\* graph.has_node
HasNode(graph_nodes, id) ==
    \E i \in 1..Len(graph_nodes) : graph_nodes[i].id = id

\* graph.add_node: a new node goes last, a node already there has its
\* attributes updated
AddNode(graph_nodes, node) ==
    IF HasNode(graph_nodes, node.id)
    THEN [i \in 1..Len(graph_nodes) |->
            IF graph_nodes[i].id = node.id THEN node ELSE graph_nodes[i]]
    ELSE Append(graph_nodes, node)

\* A node graph.add_edge makes for an endpoint that is not in the graph: it
\* has no attribute.
BareNode(id) ==
    [id |-> id, type |-> "unknown", txid |-> "", address |-> "", depth |-> 0]

TxNode(txid, depth) ==
    [id |-> TxNodeId(txid), type |-> "transaction", txid |-> txid,
     address |-> "", depth |-> depth]

AddrNode(address) ==
    [id |-> AddrNodeId(address), type |-> "address", txid |-> "",
     address |-> address, depth |-> 0]

\* graph.add_edge: the endpoints not in the graph are added as nodes, the
\* edge replaces the one between the same two nodes
AddEdge(s, edge) ==
    LET with_source ==
            IF HasNode(s.graph_nodes, edge.source) THEN s.graph_nodes
            ELSE Append(s.graph_nodes, BareNode(edge.source))
        with_both ==
            IF HasNode(with_source, edge.target) THEN with_source
            ELSE Append(with_source, BareNode(edge.target))
    IN  [s EXCEPT
            !.graph_nodes = with_both,
            !.graph_edges =
                {e \in @ : ~(e.source = edge.source /\ e.target = edge.target)}
                \cup {edge}]

\* _trace_recursive: the address node of an input or output, added when
\* the graph has none
AddAddressNode(s, address) ==
    IF HasNode(s.graph_nodes, AddrNodeId(address)) THEN s
    ELSE [s EXCEPT !.graph_nodes = AddNode(@, AddrNode(address))]

\* _trace_recursive: for i, output in enumerate(transaction.outputs)
RECURSIVE ProcessOutputs(_, _, _)
ProcessOutputs(s, txid, outputs) ==
    IF outputs = <<>> THEN s
    ELSE LET address == Head(outputs).address
             edge == [source |-> TxNodeId(txid),
                      target |-> AddrNodeId(address),
                      confidence |-> Certain, txid |-> ""]
         IN  IF address = "" THEN ProcessOutputs(s, txid, Tail(outputs))
             ELSE ProcessOutputs(AddEdge(AddAddressNode(s, address), edge),
                                 txid, Tail(outputs))

\* _trace_recursive: the edge from the address of an input to the
\* transaction
InputEdge_NoAddressNode(s, txid, is_coinjoin, inp) ==
    IF inp.address = "" THEN s
    ELSE AddEdge(s,
                 [source |-> AddrNodeId(inp.address),
                  target |-> TxNodeId(txid),
                  confidence |->
                      IF is_coinjoin THEN ThroughCoinJoin ELSE CommonInput,
                  txid |-> inp.txid])

InputEdge(s, txid, is_coinjoin, inp) ==
    IF inp.address = "" THEN s
    ELSE AddEdge(AddAddressNode(s, inp.address),
                 [source |-> AddrNodeId(inp.address),
                  target |-> TxNodeId(txid),
                  confidence |->
                      IF is_coinjoin THEN ThroughCoinJoin ELSE CommonInput,
                  txid |-> inp.txid])

\* _trace_recursive(transaction, _, depth, ...) up to its loop over the
\* inputs: the two early returns, the transaction node, the CoinJoin stop
\* and the outputs; the call is noted in calls (via: the transaction whose
\* input led to it; expanded: it got past the early returns; coinjoin: what
\* detect_coinjoin said when it was expanded).
TraceRecursive_NoVisited(s, transaction, depth, via) ==
    LET txid == transaction.txid
        call(expanded) ==
            [txid |-> txid, depth |-> depth, via |-> via, fetched |-> TRUE,
             expanded |-> expanded,
             coinjoin |-> expanded /\ transaction.coinjoin]
    IN  IF depth >= s.max_depth
        THEN [s EXCEPT !.calls = Append(@, call(FALSE))]
        ELSE LET entered ==
                     [s EXCEPT
                        !.calls = Append(@, call(TRUE)),
                        !.visited_txids = @ \cup {txid},
                        !.graph_nodes = AddNode(@, TxNode(txid, depth)),
                        !.coinjoins = IF transaction.coinjoin
                                      THEN Append(@, txid) ELSE @]
             IN  IF transaction.coinjoin /\ ~s.include_coinjoin
                 THEN entered
                 ELSE LET with_outputs ==
                              ProcessOutputs(entered, txid,
                                             transaction.outputs)
                      IN  [with_outputs EXCEPT
                             !.stack = Append(@,
                                [txid |-> txid, depth |-> depth,
                                 is_coinjoin |-> transaction.coinjoin,
                                 inputs |-> transaction.inputs])]

TraceRecursive_ThroughCoinJoin(s, transaction, depth, via) ==
    LET txid == transaction.txid
        call(expanded) ==
            [txid |-> txid, depth |-> depth, via |-> via, fetched |-> TRUE,
             expanded |-> expanded,
             coinjoin |-> expanded /\ transaction.coinjoin]
    IN  IF depth >= s.max_depth \/ txid \in s.visited_txids
        THEN [s EXCEPT !.calls = Append(@, call(FALSE))]
        ELSE LET entered ==
                     [s EXCEPT
                        !.calls = Append(@, call(TRUE)),
                        !.visited_txids = @ \cup {txid},
                        !.graph_nodes = AddNode(@, TxNode(txid, depth)),
                        !.coinjoins = IF transaction.coinjoin
                                      THEN Append(@, txid) ELSE @]
             IN  IF FALSE
                 THEN entered
                 ELSE LET with_outputs ==
                              ProcessOutputs(entered, txid,
                                             transaction.outputs)
                      IN  [with_outputs EXCEPT
                             !.stack = Append(@,
                                [txid |-> txid, depth |-> depth,
                                 is_coinjoin |-> transaction.coinjoin,
                                 inputs |-> transaction.inputs])]

TraceRecursive(s, transaction, depth, via) ==
    LET txid == transaction.txid
        call(expanded) ==
            [txid |-> txid, depth |-> depth, via |-> via, fetched |-> TRUE,
             expanded |-> expanded,
             coinjoin |-> expanded /\ transaction.coinjoin]
    IN  IF depth >= s.max_depth \/ txid \in s.visited_txids
        THEN [s EXCEPT !.calls = Append(@, call(FALSE))]
        ELSE LET entered ==
                     [s EXCEPT
                        !.calls = Append(@, call(TRUE)),
                        !.visited_txids = @ \cup {txid},
                        !.graph_nodes = AddNode(@, TxNode(txid, depth)),
                        !.coinjoins = IF transaction.coinjoin
                                      THEN Append(@, txid) ELSE @]
             IN  IF transaction.coinjoin /\ ~s.include_coinjoin
                 THEN entered
                 ELSE LET with_outputs ==
                              ProcessOutputs(entered, txid,
                                             transaction.outputs)
                      IN  [with_outputs EXCEPT
                             !.stack = Append(@,
                                [txid |-> txid, depth |-> depth,
                                 is_coinjoin |-> transaction.coinjoin,
                                 inputs |-> transaction.inputs])]

\* _trace_recursive: the calls whose loop over the inputs has ended return,
\* and the walk is over when the first call returns
RECURSIVE Unwind(_)
Unwind(s) ==
    IF s.stack = <<>> THEN [s EXCEPT !.pc = "build"]
    ELSE IF s.stack[Len(s.stack)].inputs = <<>>
    THEN Unwind([s EXCEPT !.stack = SubSeq(@, 1, Len(@) - 1)])
    ELSE [s EXCEPT !.pc = "walk"]

\* _trace_recursive: one turn of the loop over the inputs of the innermost
\* call: a coinbase input is skipped; otherwise the edge from the input's
\* address is added, the spent transaction is fetched and, when the fetch
\* gave it, walked one level deeper
TraceInputTurn(s, fetched, transaction) ==
    LET top == s.stack[Len(s.stack)]
        inp == Head(top.inputs)
        rest == [s EXCEPT !.stack[Len(s.stack)].inputs = Tail(@)]
    IN  IF inp.txid = "" \/ inp.txid = Coinbase THEN rest
        ELSE LET with_edge ==
                     InputEdge(rest, top.txid, top.is_coinjoin, inp)
                 failed == [txid |-> inp.txid, depth |-> top.depth + 1,
                            via |-> top.txid, fetched |-> FALSE,
                            expanded |-> FALSE, coinjoin |-> FALSE]
             IN  IF fetched
                 THEN TraceRecursive(with_edge, transaction, top.depth + 1,
                                     top.txid)
                 ELSE [with_edge EXCEPT !.calls = Append(@, failed)]

\* _build_graph_data: the address and transaction nodes of the graph, and
\* the edges whose confidence is not under the threshold
BuildGraphData(s) ==
    [s EXCEPT
        !.pc = "done",
        !.nodes = SelectSeq(s.graph_nodes,
                            LAMBDA n : n.type \in {"address", "transaction"}),
        !.edges = {e \in s.graph_edges :
                       ~(e.confidence < s.confidence_threshold)}]

\* trace_utxo_backward up to the first input of the walk: the state of the
\* orchestrator is reset, the starting transaction is fetched (the error of
\* a failed fetch goes to the caller) and _trace_recursive is entered at
\* depth 0.
TraceUtxoBackward(txid, max_depth, include_coinjoin, confidence_threshold, fetched, transaction) ==
    /\ tr.pc = "idle"
    /\ LET reset == [TrIdle EXCEPT
                        !.txid = txid,
                        !.max_depth = max_depth,
                        !.include_coinjoin = include_coinjoin,
                        !.confidence_threshold = confidence_threshold]
       IN  tr' = IF fetched
                 THEN Unwind(TraceRecursive(reset, transaction, 0, ""))
                 ELSE [reset EXCEPT !.pc = "failed",
                                    !.raised = "Exception"]
    /\ UNCHANGED beyondTrace

\* The transactions the fetch for the next input of the walk can give (for
\* a coinbase input nothing is fetched).
NextSpent ==
    IF tr.pc # "walk" THEN {}
    ELSE LET top == tr.stack[Len(tr.stack)]
         IN  IF Head(top.inputs).txid \in Txids
             THEN TransactionsOf(Head(top.inputs).txid)
             ELSE TransactionsOf(TraceOrder[Len(TraceOrder)])

\* The fetch of the transaction an input spends has ended.
TraceInput(fetched) ==
    /\ tr.pc = "walk"
    /\ \E transaction \in NextSpent :
          tr' = Unwind(TraceInputTurn(tr, fetched, transaction))
    /\ UNCHANGED beyondTrace

\* trace_utxo_backward after the walk: clusters and peel chains (they read
\* the graph and leave it alone), then the nodes and edges of the response.
TraceBuild ==
    /\ tr.pc = "build"
    /\ tr' = BuildGraphData(tr)
    /\ UNCHANGED beyondTrace

\* The fields TraceGraphResponse declares without a default.
TraceGraphResponseRequired ==
    {"nodes", "edges", "start_txid", "start_vout", "depth_reached",
     "total_nodes", "total_edges"}

\* TraceGraphResponse(**given): pydantic raises ValidationError when a
\* required field is not given, and ignores what the model does not declare
ValidationError(given) == ~(TraceGraphResponseRequired \subseteq given)

\* The keywords trace_utxo_backward gives to TraceGraphResponse.
BackwardResponseFields ==
    {"nodes", "edges", "clusters", "coinjoins", "peel_chains", "start_txid",
     "start_vout", "hops_before_reached", "hops_after_reached",
     "total_nodes", "total_edges"}

\* trace_utxo_backward: return TraceGraphResponse(...)
TraceRespond ==
    /\ tr.pc = "done"
    /\ tr' = IF ValidationError(BackwardResponseFields)
             THEN [tr EXCEPT !.pc = "failed", !.raised = "ValidationError"]
             ELSE [tr EXCEPT !.pc = "returned"]
    /\ UNCHANGED beyondTrace

\* The caller has the response or the error.
TraceReturn ==
    /\ tr.pc \in {"returned", "failed"}
    /\ tr' = TrIdle
    /\ UNCHANGED beyondTrace

InitTrace ==
    /\ TraceInit
    /\ BeyondTraceInit

NextTrace ==
    \/ \E txid \in {TraceOrder[1]}, max_depth \in 0..MaxDepth,
          include_coinjoin \in BOOLEAN, confidence_threshold \in Thresholds,
          fetched \in BOOLEAN :
          \E transaction \in TransactionsOf(txid) :
              TraceUtxoBackward(txid, max_depth, include_coinjoin,
                                confidence_threshold, fetched, transaction)
    \/ \E fetched \in BOOLEAN : TraceInput(fetched)
    \/ TraceBuild
    \/ TraceRespond
    \/ TraceReturn

SpecTrace == InitTrace /\ [][NextTrace]_vars

----------------------------------------------------------------------------
(* Claims on the graph of trace_utxo_backward                               *)

\* The ids of the nodes of the response.
NodeIds(nodes) == {nodes[i].id : i \in 1..Len(nodes)}

\* C19: in the graph a trace returns, the source and the target of every
\* edge are ids of nodes of the returned node list.
C19_EdgeEndpointsAreNodes ==
    tr.pc = "done" =>
        \A e \in tr.edges :
            /\ e.source \in NodeIds(tr.nodes)
            /\ e.target \in NodeIds(tr.nodes)

\* A trace has returned edges after it left out a low-confidence edge and
\* after the fetch of a spent transaction, asked for within max_depth,
\* failed.
C19_Witness ==
    /\ tr.pc = "done"
    /\ tr.edges # {}
    /\ tr.graph_edges \ tr.edges # {}
    /\ \E e \in tr.graph_edges :
          /\ e.txid \in Txids
          /\ e.txid \notin tr.visited_txids
          /\ \E i \in 1..Len(tr.graph_nodes) :
                /\ tr.graph_nodes[i].id = e.target
                /\ tr.graph_nodes[i].depth + 1 < tr.max_depth

\* C20: during a walk a transaction is expanded at most once, so the graph
\* and the response have at most one transaction node per txid, and the
\* depth of every transaction node is at most max_depth (hops_before).
C20_ExpandedOnceDepthBounded ==
    /\ \A i, j \in 1..Len(tr.calls) :
          (/\ tr.calls[i].expanded
           /\ tr.calls[j].expanded
           /\ tr.calls[i].txid = tr.calls[j].txid) => i = j
    /\ \A list \in {tr.graph_nodes, tr.nodes} :
          /\ \A i, j \in 1..Len(list) :
                (/\ list[i].type = "transaction"
                 /\ list[j].type = "transaction"
                 /\ list[i].txid = list[j].txid) => i = j
          /\ \A i \in 1..Len(list) :
                list[i].type = "transaction" =>
                    list[i].depth <= tr.max_depth

\* A trace has ended in which a transaction was reached through two inputs
\* and expanded for the first of them.
C20_Witness ==
    /\ tr.pc = "done"
    /\ \E i, j \in 1..Len(tr.calls) :
          /\ i < j
          /\ tr.calls[i].txid = tr.calls[j].txid
          /\ tr.calls[i].expanded
          /\ tr.calls[j].fetched
          /\ tr.calls[j].depth < tr.max_depth
          /\ ~tr.calls[j].expanded

\* C21: with include_coinjoin = false, a transaction detect_coinjoin takes
\* for a CoinJoin has its node in the graph and is listed in coinjoins, and
\* the walk does not go through it: no transaction is fetched through its
\* inputs, its inputs are not looped over, and no edge starts or ends at it.
C21_CoinJoinRecordedNotTraversed ==
    ~tr.include_coinjoin =>
        \A i \in 1..Len(tr.calls) :
            tr.calls[i].coinjoin =>
                LET txid == tr.calls[i].txid
                IN  /\ txid \in Range(tr.coinjoins)
                    /\ HasNode(tr.graph_nodes, TxNodeId(txid))
                    /\ \A j \in 1..Len(tr.calls) : tr.calls[j].via # txid
                    /\ \A k \in 1..Len(tr.stack) : tr.stack[k].txid # txid
                    /\ \A e \in tr.graph_edges :
                          /\ e.source # TxNodeId(txid)
                          /\ e.target # TxNodeId(txid)

\* A walk with include_coinjoin = false has ended that met a CoinJoin below
\* the starting transaction, with depth left to go through it, and expanded
\* another transaction afterwards.
C21_Witness ==
    /\ tr.pc = "done"
    /\ ~tr.include_coinjoin
    /\ \E i, j \in 1..Len(tr.calls) :
          /\ tr.calls[i].coinjoin
          /\ tr.calls[i].depth >= 1
          /\ tr.calls[i].depth + 1 < tr.max_depth
          /\ i < j
          /\ tr.calls[j].expanded

\* C22: a trace fails with an error only when the starting transaction
\* could not be fetched; the failed fetch of another transaction leaves no
\* node for that fetch and does not end the trace.
C22_OnlyStartFetchFailureFails ==
    /\ tr.pc = "failed" => tr.calls = <<>>
    /\ \A i \in 1..Len(tr.calls) :
          ~tr.calls[i].fetched =>
              /\ tr.raised = ""
              /\ (HasNode(tr.graph_nodes, TxNodeId(tr.calls[i].txid)) =>
                    \E j \in 1..Len(tr.calls) :
                        /\ tr.calls[j].txid = tr.calls[i].txid
                        /\ tr.calls[j].expanded)

\* The input hops the walk has seen: a transaction and a transaction one
\* of its inputs spends from.
InputHops ==
    {<<tr.calls[i].via, tr.calls[i].txid>> :
        i \in {j \in 1..Len(tr.calls) : tr.calls[j].via # ""}}

\* The transactions within k input hops of the starting transaction.
RECURSIVE WithinHops(_)
WithinHops(k) ==
    IF k < 0 THEN {}
    ELSE IF k = 0 THEN {tr.txid}
    ELSE LET nearer == WithinHops(k - 1)
         IN  nearer \cup {t \in Txids : \E s \in nearer : <<s, t>> \in InputHops}

\* The shortest input-hop distance of a transaction from the starting one.
ShortestHops(txid) ==
    CHOOSE k \in 0..Len(TraceOrder) :
        /\ txid \in WithinHops(k)
        /\ txid \notin WithinHops(k - 1)

\* C34, as stated: when all fetches succeed and no CoinJoin is met, every
\* transaction within fewer than hops_before input hops of the starting
\* transaction has a transaction node, and the depth of the node is the
\* shortest input-hop distance of the transaction from the starting one.
C34_BreadthFirstShortestDepth ==
    (/\ tr.pc = "done"
     /\ \A i \in 1..Len(tr.calls) :
           tr.calls[i].fetched /\ ~tr.calls[i].coinjoin) =>
        \A txid \in WithinHops(tr.max_depth - 1) :
            \E i \in 1..Len(tr.nodes) :
                /\ tr.nodes[i].id = TxNodeId(txid)
                /\ tr.nodes[i].depth = ShortestHops(txid)

----------------------------------------------------------------------------
(* The API handlers: POST /trace/utxo (trace_utxo), POST /trace/address     *)
(* (trace_from_address) and the streaming address trace                     *)
(* (stream_address_trace).  One request is served at a time; api.handler    *)
(* names the handler and api.pc where it stands.                            *)

MaxHops == 2                \* largest hops_before / hops_after of a request
MaxTransactions == 2        \* largest max_transactions of a request
MaxAddressesPerTx == 2      \* largest max_addresses_per_tx of a request body

\* The address traced and the transactions of the chain that touch it:
\* ta pays it, tb spends ta's output, tc spends pa's output 1 and pays it.
ApiAddress == "a1"
ApiOutputs ==
    ("ta" :> <<"a1">>) @@ ("tb" :> <<"a2">>) @@ ("tc" :> <<"a1", "a2">>) @@
    ("px" :> <<"a9">>) @@ ("pa" :> <<"a9", "a1">>)
ApiInputs ==
    ("ta" :> <<[txid |-> "px", vout |-> 1]>>) @@
    ("tb" :> <<[txid |-> "ta", vout |-> 1]>>) @@
    ("tc" :> <<[txid |-> "pa", vout |-> 2]>>) @@
    ("px" :> <<>>) @@ ("pa" :> <<>>)
ApiTxids == {"ta", "tb", "tc"}

\* The history lists an address can have: distinct txids in some order.
Histories ==
    {h \in UNION {[1..n -> ApiTxids] : n \in 0..Cardinality(ApiTxids)} :
        \A i, j \in DOMAIN h : i # j => h[i] # h[j]}

\* The fields TraceUTXORequest declares, with their defaults (txid and vout
\* are required).
TraceUTXORequestDefaults ==
    [txid |-> "", vout |-> 0, max_depth |-> 20, include_coinjoin |-> FALSE,
     confidence_threshold |-> 5]

\* TraceUTXORequest(**body): the declared fields, from the body where it
\* has them; what the model does not declare is ignored.
TraceUTXORequest(body) ==
    [f \in DOMAIN TraceUTXORequestDefaults |->
        IF f \in DOMAIN body THEN body[f] ELSE TraceUTXORequestDefaults[f]]

\* request.<name>: raises AttributeError for a name the model does not have
HasAttr(request, name) == name \in DOMAIN request

\* The bodies a client posts: the fields of the documented example.
Bodies ==
    [txid : {"ta"}, vout : {0}, hops_before : 0..MaxHops,
     hops_after : 0..MaxHops, max_addresses_per_tx : 1..MaxAddressesPerTx,
     include_coinjoin : BOOLEAN]

\* HTTPException(status_code=500) out of the handler's except clause
InternalServerError == 500

\* trace_utxo: the first statement of the try block formats
\* request.hops_before, request.hops_after and request.max_addresses_per_tx
\* into the log line; the except clause turns what it raises into a 500.
TraceUtxo(body) ==
    /\ api.pc = "idle"
    /\ LET request == TraceUTXORequest(body)
           read == {"txid", "vout", "hops_before", "hops_after",
                    "max_addresses_per_tx"}
       IN  /\ \E name \in read : ~HasAttr(request, name)
           /\ api' = [ApiIdle EXCEPT !.handler = "trace_utxo",
                                     !.pc = "responded",
                                     !.hops_before = body.hops_before,
                                     !.hops_after = body.hops_after,
                                     !.max_addresses_per_tx =
                                         body.max_addresses_per_tx,
                                     !.raised = "AttributeError",
                                     !.status = InternalServerError]
    /\ UNCHANGED beyondApi

\* The keywords trace_from_address (and the fast path of trace_utxo) give to
\* TraceGraphResponse.
AddressResponseFields ==
    {"nodes", "edges", "clusters", "coinjoins", "peel_chains", "start_txid",
     "start_vout", "total_nodes", "total_edges"}

\* trace_from_address up to the hop test: the address node, and with hops
\* 0,0 nothing more.
TraceFromAddress(hops_before, hops_after, max_transactions) ==
    /\ api.pc = "idle"
    /\ api' = [ApiIdle EXCEPT
                  !.handler = "trace_from_address",
                  !.hops_before = hops_before,
                  !.hops_after = hops_after,
                  !.max_transactions = max_transactions,
                  !.nodes = <<AddrNodeId(ApiAddress)>>,
                  !.pc = IF hops_before = 0 /\ hops_after = 0
                         THEN "respond" ELSE "history"]
    /\ UNCHANGED beyondApi

\* txids = await blockchain_service.fetch_address_history(address)
AddressTraceHistory ==
    /\ api.handler = "trace_from_address"
    /\ api.pc = "history"
    /\ \E history \in Histories :
          api' = [api EXCEPT !.history = history,
                             !.fetches = @ + 1,
                             !.pc = IF history = <<>> THEN "respond"
                                    ELSE "batch"]
    /\ UNCHANGED beyondApi

\* txids[:max_transactions]
FirstOf(txids, n) == SubSeq(txids, 1, Min(n, Len(txids)))

\* The addresses the inputs of a transaction resolve to: the output
\* inp.vout of the input transaction, for the inputs whose transaction came
\* back in input_tx_map.
ResolvedInputs(txid, input_tx_map) ==
    {ApiOutputs[inp.txid][inp.vout] :
        inp \in {i \in Range(ApiInputs[txid]) :
                    /\ i.txid \in input_tx_map
                    /\ i.vout <= Len(ApiOutputs[i.txid])}}

HasOutputToAddr(txid) == ApiAddress \in Range(ApiOutputs[txid])
HasInputFromAddr(txid, input_tx_map) ==
    ApiAddress \in ResolvedInputs(txid, input_tx_map)

\* The inclusion test of trace_from_address
IncludeTx(txid, input_tx_map, hops_before, hops_after) ==
    \/ HasOutputToAddr(txid) /\ hops_before > 0
    \/ HasInputFromAddr(txid, input_tx_map) /\ hops_after > 0

\* The edges trace_from_address adds for an included transaction
AddressEdges(txid, input_tx_map, hops_before, hops_after) ==
    (IF hops_before > 0 /\ HasOutputToAddr(txid)
     THEN {[source |-> TxNodeId(txid), target |-> AddrNodeId(ApiAddress)]}
     ELSE {}) \cup
    (IF hops_after > 0 /\ HasInputFromAddr(txid, input_tx_map)
     THEN {[source |-> AddrNodeId(ApiAddress), target |-> TxNodeId(txid)]}
     ELSE {})

\* trace_from_address from the batch fetch to the last edge: the two batch
\* fetches, the nodes of the included transactions in list order, and
\* their edges.
AddressTraceBatch ==
    /\ api.handler = "trace_from_address"
    /\ api.pc = "batch"
    /\ LET txids_to_fetch == FirstOf(api.history, api.max_transactions)
           input_tx_map ==
               {inp.txid : inp \in UNION {Range(ApiInputs[txid]) :
                                             txid \in Range(txids_to_fetch)}}
           included ==
               SelectSeq(txids_to_fetch,
                         LAMBDA txid : IncludeTx(txid, input_tx_map,
                                                 api.hops_before,
                                                 api.hops_after))
       IN  api' = [api EXCEPT
                      !.txids = txids_to_fetch,
                      !.fetches = @ + 2,
                      !.nodes = @ \o [i \in 1..Len(included) |->
                                         TxNodeId(included[i])],
                      !.edges = UNION {AddressEdges(txid, input_tx_map,
                                                    api.hops_before,
                                                    api.hops_after) :
                                          txid \in Range(included)},
                      !.pc = "respond"]
    /\ UNCHANGED beyondApi

\* trace_from_address: return TraceGraphResponse(...); the except clause
\* turns what the constructor raises into a 500.
AddressTraceRespond ==
    /\ api.handler = "trace_from_address"
    /\ api.pc = "respond"
    /\ api' = IF ValidationError(AddressResponseFields)
              THEN [api EXCEPT !.pc = "responded",
                               !.raised = "ValidationError",
                               !.status = InternalServerError]
              ELSE [api EXCEPT !.pc = "responded", !.status = 200]
    /\ UNCHANGED beyondApi

\* An SSE event of the streaming trace: its type, the status or error type
\* of its data, the nodes of its data, and the keys of its data.
SseEvent(type, status, keys) == [type |-> type, status |-> status, nodes |-> <<>>, keys |-> keys]

\* The keys of the data of the first metadata event and of the error event.
StartingKeys == {"address", "hops_before", "hops_after", "status"}
ErrorKeys == {"message", "type"}

\* stream_address_trace: batch_size = 20
batch_size == 20

\* The parameters BlockchainDataService.fetch_address_history declares
\* besides self.
FetchAddressHistoryParams == {"address"}

\* stream_address_trace up to its first yield: the metadata event.  The
\* address has the history list given; the generator has not asked for it.
StreamAddressTrace(hops_before, hops_after, max_transactions, history) ==
    /\ api.pc = "idle"
    /\ api' = [ApiIdle EXCEPT
                  !.handler = "stream_address_trace",
                  !.hops_before = hops_before,
                  !.hops_after = hops_after,
                  !.max_transactions = max_transactions,
                  !.history = history,
                  !.events = <<SseEvent("metadata", "starting", StartingKeys)>>,
                  !.pc = "history"]
    /\ UNCHANGED beyondApi

\* A stream that goes on after its error event and reports completion.
StreamHistory_ErrorThenComplete ==
    /\ api.handler = "stream_address_trace"
    /\ api.pc = "history"
    /\ api' = [api EXCEPT
                  !.raised = "TypeError",
                  !.events = @ \o <<SseEvent("error", "TypeError", ErrorKeys),
                                    SseEvent("complete", "", {"message"})>>,
                  !.pc = "responded"]
    /\ UNCHANGED beyondApi

\* stream_address_trace: fetch_address_history(address,
\* max_results=max_transactions); a keyword the function does not declare
\* raises TypeError before the call is made, and the except clause yields
\* the error event and ends the stream.
StreamHistory ==
    /\ api.handler = "stream_address_trace"
    /\ api.pc = "history"
    /\ LET keywords == {"address", "max_results"}
       IN  /\ ~(keywords \subseteq FetchAddressHistoryParams)
           /\ api' = [api EXCEPT
                         !.raised = "TypeError",
                         !.events = Append(@, SseEvent("error", "TypeError",
                                                       ErrorKeys)),
                         !.pc = "responded"]
    /\ UNCHANGED beyondApi

\* The client has the response or the stream has ended.
ApiReturn ==
    /\ api.pc = "responded"
    /\ api' = ApiIdle
    /\ UNCHANGED beyondApi

InitApi ==
    /\ ApiInit
    /\ BeyondApiInit

NextApi ==
    \/ \E body \in Bodies : TraceUtxo(body)
    \/ \E hops_before \in 0..MaxHops, hops_after \in 0..MaxHops,
          max_transactions \in 1..MaxTransactions :
          TraceFromAddress(hops_before, hops_after, max_transactions)
    \/ AddressTraceHistory
    \/ AddressTraceBatch
    \/ AddressTraceRespond
    \/ \E hops_before \in 0..MaxHops, hops_after \in 0..MaxHops,
          max_transactions \in 1..MaxTransactions, history \in Histories :
          StreamAddressTrace(hops_before, hops_after, max_transactions,
                             history)
    \/ StreamHistory
    \/ ApiReturn

SpecApi == InitApi /\ [][NextApi]_vars

\* Whether a transaction spends an output that paid the address.
SpendsFromAddress(txid) ==
    \E i \in DOMAIN ApiInputs[txid] :
        LET inp == ApiInputs[txid][i]
        IN  ApiOutputs[inp.txid][inp.vout] = ApiAddress

TxNodesOf(nodes) == {i \in DOMAIN nodes : nodes[i][1] = "tx"}
AddrNodesOf(nodes) == {i \in DOMAIN nodes : nodes[i][1] = "addr"}

\* C23: POST /trace/utxo answers with a TraceGraph and not an error, taking
\* the fast path when hops_before <= 1 and hops_after <= 1 and the
\* recursive orchestrator walk when a hop count is above 1.
C23_PathByHopCounts ==
    (api.handler = "trace_utxo" /\ api.pc = "responded") =>
        /\ api.status = 200
        /\ api.path = IF api.hops_before <= 1 /\ api.hops_after <= 1
                      THEN "fast" ELSE "recursive"

\* C24: with hops_before = 1, hops_after = 1 and max_addresses_per_tx = M,
\* trace_utxo returns a graph with exactly one TX node and at most M
\* input-address and M output-address nodes, each with an edge at the TX
\* node.
C24_FastPathCapsAddresses ==
    (/\ api.handler = "trace_utxo" /\ api.pc = "responded"
     /\ api.hops_before = 1 /\ api.hops_after = 1) =>
        /\ api.raised = ""
        /\ Cardinality(TxNodesOf(api.nodes)) = 1
        /\ Cardinality(AddrNodesOf(api.nodes)) <= 2 * api.max_addresses_per_tx
        /\ \A i \in AddrNodesOf(api.nodes) :
               \E e \in api.edges : api.nodes[i] \in {e.source, e.target}

\* C25: the address-centered trace, batch or streaming, answers with the
\* address node and a TX node for exactly the fetched transactions that
\* pay the address while hops_before > 0 or spend from it while
\* hops_after > 0; with both hops 0 it answers with the address node alone
\* and fetches nothing.
C25_AddressInclusionRule ==
    (/\ api.handler \in {"trace_from_address", "stream_address_trace"}
     /\ api.pc = "responded") =>
        /\ api.raised = ""
        /\ (api.hops_before = 0 /\ api.hops_after = 0) =>
               api.fetches = 0 /\ api.nodes = <<AddrNodeId(ApiAddress)>>
        /\ \A txid \in Range(api.txids) :
               TxNodeId(txid) \in Range(api.nodes) <=>
                   \/ HasOutputToAddr(txid) /\ api.hops_before > 0
                   \/ SpendsFromAddress(txid) /\ api.hops_after > 0

\* C26: a streaming address trace whose upstream calls succeed emits
\* metadata (starting), metadata (total_transactions), a first batch that
\* holds only the address node, a progress event after every later batch,
\* and a complete event last.
C26_StreamEventOrder ==
    (api.handler = "stream_address_trace" /\ api.pc = "responded") =>
        LET e == api.events
        IN  /\ Len(e) >= 4
            /\ e[1] = SseEvent("metadata", "starting", StartingKeys)
            /\ e[2].type = "metadata" /\ e[2].status = "fetching"
            /\ e[3].type = "batch"
            /\ e[3].nodes = <<AddrNodeId(ApiAddress)>>
            /\ \A i \in 4..(Len(e) - 1) :
                   e[i].type = "batch" => e[i + 1].type = "progress"
            /\ e[Len(e)].type = "complete"

\* C27: the streaming address trace processes the history list in groups
\* of batch_size, one batch event a group after the first batch event; no
\* transaction is in two batch events, and a transaction of an earlier
\* batch event is earlier in the history list.
C27_StreamBatchesFollowHistory ==
    (api.handler = "stream_address_trace" /\ api.pc = "responded") =>
        LET e == api.events
            batches == {i \in DOMAIN e : e[i].type = "batch"}
            Place(node) ==
                CHOOSE k \in DOMAIN api.history : TxNodeId(api.history[k]) = node
        IN  /\ api.history # <<>> =>
                Cardinality(batches) =
                    1 + (Len(api.history) + batch_size - 1) \div batch_size
            /\ \A i, j \in batches :
                   i < j =>
                       \A m \in Range(e[i].nodes), n \in Range(e[j].nodes) :
                           (m[1] = "tx" /\ n[1] = "tx") => Place(m) < Place(n)

\* The events that end a stream.
TerminalTypes == {"complete", "error"}
Terminals(events) == {i \in DOMAIN events : events[i].type \in TerminalTypes}

\* C40: a streaming address trace emits at most one terminal event and
\* nothing after it, and has emitted exactly one when it ends; a run in
\* which an exception was raised ends with one error event that carries
\* message and type, the type being that of the exception, and has no
\* complete event; a stream that has emitted its terminal event emits no
\* further event.
C40_OneTerminalEventLast ==
    /\ [](api.handler = "stream_address_trace" =>
             LET e == api.events
                 t == Terminals(e)
             IN  /\ Cardinality(t) <= 1
                 /\ t \subseteq {Len(e)}
                 /\ (api.pc = "responded") = (t # {})
                 /\ api.raised # "" =>
                        /\ api.pc = "responded"
                        /\ e[Len(e)].type = "error"
                        /\ e[Len(e)].keys = {"message", "type"}
                        /\ e[Len(e)].status = api.raised
                        /\ \A i \in DOMAIN e : e[i].type # "complete")
    /\ [][(api.handler = "stream_address_trace" /\ Terminals(api.events) # {})
             => (api'.events = api.events \/ api' = ApiIdle)]_vars
    /\ [][(api.handler = "stream_address_trace" /\ api'.handler = api.handler)
             => \E more \in {<<>>} \cup {<<ev>> : ev \in Range(api'.events)} :
                    api'.events = api.events \o more]_vars

\* A stream for an address with a history has ended: after the first
\* metadata event the history fetch raised and the error event was the last.
C40_Witness ==
    /\ api.handler = "stream_address_trace"
    /\ api.pc = "responded"
    /\ api.history # <<>>
    /\ api.raised = "TypeError"
    /\ Len(api.events) = 2
    /\ api.events[1].type = "metadata"
    /\ api.events[2] = SseEvent("error", "TypeError", ErrorKeys)

----------------------------------------------------------------------------
(* CoinJoinDetector.detect_coinjoin.  A transaction is the number of its    *)
(* inputs, the values of its outputs in order, and its locktime; values     *)
(* are in satoshis and confidences in hundredths.                           *)

MaxCoinJoinInputs == 6      \* most inputs of a transaction given to it
MaxListed == 5              \* most outputs listed one by one
RunLength == 8              \* outputs of one value that may follow them

\* CoinJoinDetector.__init__
whirlpool_pools == {100000, 1000000, 5000000, 50000000}
wasabi_denominations == {10000000}

\* The output values drawn: a fee-sized one, a Whirlpool pool size and the
\* Wasabi denomination.
OutputValues == {50, 100000, 10000000}

\* The outputs lists drawn: up to MaxListed values, then a run of RunLength
\* equal ones or nothing.
OutputLists ==
    {listed \o [i \in 1..run |-> v] :
        listed \in UNION {[1..n -> OutputValues] : n \in 0..MaxListed},
        run \in {0, RunLength}, v \in OutputValues}

CoinJoinTransactions ==
    [txid : {"cj"}, inputs : 0..MaxCoinJoinInputs, outputs : OutputLists,
     locktime : {0, 1}]

\* Counter(output_values)[v]
CountOf(output_values, v) ==
    Cardinality({i \in DOMAIN output_values : output_values[i] = v})

\* The mutant of most_common: the first value and its count.
MostCommon_First(output_values) ==
    [value |-> output_values[1],
     count |-> CountOf(output_values, output_values[1])]

\* Counter(output_values).most_common(1)[0]: the value counted most often,
\* the first of them in the list when several are; the list is not empty.
MostCommon(output_values) ==
    LET most == CHOOSE c \in 1..Len(output_values) :
                    /\ \E v \in Range(output_values) :
                           CountOf(output_values, v) = c
                    /\ \A v \in Range(output_values) :
                           CountOf(output_values, v) <= c
        first == CHOOSE i \in DOMAIN output_values :
                    /\ CountOf(output_values, output_values[i]) = most
                    /\ \A j \in 1..(i - 1) :
                           CountOf(output_values, output_values[j]) < most
    IN  [value |-> output_values[first], count |-> most]

\* CoinJoinDetector._is_wasabi_pattern
IsWasabiPattern(transaction, equal_value, equal_count) ==
    IF /\ equal_value \notin wasabi_denominations
       /\ ~(5000000 <= equal_value /\ equal_value <= 50000000)
    THEN FALSE
    ELSE IF equal_count < 10 THEN FALSE
    ELSE \E i \in DOMAIN transaction.outputs :
             100 * transaction.outputs[i] < equal_value

\* CoinJoinDetector._is_joinmarket_pattern
IsJoinmarketPattern(transaction) ==
    \/ transaction.locktime > 0
    \/ 2 * Cardinality(Range(transaction.outputs)) > Len(transaction.outputs)

\* CoinJoinDetector._classify_coinjoin
ClassifyCoinjoin(transaction, equal_value, equal_count) ==
    IF equal_value \in whirlpool_pools
    THEN IF equal_count = 5
         THEN [coinjoin_type |-> "whirlpool", confidence |-> 95]
         ELSE [coinjoin_type |-> "whirlpool", confidence |-> 85]
    ELSE IF IsWasabiPattern(transaction, equal_value, equal_count)
    THEN [coinjoin_type |-> "wasabi", confidence |-> 90]
    ELSE IF IsJoinmarketPattern(transaction)
    THEN [coinjoin_type |-> "joinmarket", confidence |-> 80]
    ELSE [coinjoin_type |-> "generic", confidence |-> 75]

\* CoinJoinDetector.detect_coinjoin: None is <<>>, a CoinJoinInfo is in a
\* one-element tuple.
DetectCoinjoinOf(transaction) ==
    IF transaction.inputs < 5 THEN <<>>
    ELSE IF Len(transaction.outputs) < 3 THEN <<>>
    ELSE LET common == MostCommon(transaction.outputs)
             most_common_value == common.value
             equal_output_count == common.count
         IN  IF equal_output_count < 3 THEN <<>>
             ELSE LET class == ClassifyCoinjoin(transaction,
                                                most_common_value,
                                                equal_output_count)
                  IN  <<[coinjoin_type |-> class.coinjoin_type,
                         confidence |-> class.confidence,
                         num_participants |-> equal_output_count,
                         equal_output_value |-> most_common_value,
                         equal_output_count |-> equal_output_count,
                         change_outputs |->
                             {i - 1 : i \in {k \in DOMAIN transaction.outputs :
                                 transaction.outputs[k] # most_common_value}}]>>

\* detect_coinjoin(transaction), from the call to the return.
DetectCoinjoin ==
    /\ cj.pc = "called"
    /\ cj' = [cj EXCEPT !.pc = "returned",
                        !.returned = DetectCoinjoinOf(cj.transaction)]
    /\ UNCHANGED beyondCoinJoin

InitCoinJoin ==
    /\ \E transaction \in CoinJoinTransactions :
          cj = [pc |-> "called", transaction |-> transaction,
                returned |-> <<>>]
    /\ BeyondCoinJoinInit

NextCoinJoin == DetectCoinjoin

SpecCoinJoin == InitCoinJoin /\ [][NextCoinJoin]_vars

\* C30: detect_coinjoin returns a CoinJoin record exactly for the
\* transactions with at least 5 inputs, at least 3 outputs and some output
\* value that at least 3 outputs have; the record's equal_output_count is
\* the largest number of outputs of one value and its confidence is above
\* 0.7; for every other transaction it returns None.
C30_CoinJoinIffThreeEqualOutputs ==
    cj.pc = "returned" =>
        LET outputs == cj.transaction.outputs
            Equal(v) == {i \in DOMAIN outputs : outputs[i] = v}
            qualifies ==
                /\ cj.transaction.inputs >= 5
                /\ Len(outputs) >= 3
                /\ \E v \in Range(outputs) : Cardinality(Equal(v)) >= 3
        IN  /\ cj.returned # <<>> <=> qualifies
            /\ cj.returned # <<>> =>
                   /\ \E v \in Range(outputs) :
                          Cardinality(Equal(v)) = cj.returned[1].equal_output_count
                   /\ \A v \in Range(outputs) :
                          Cardinality(Equal(v)) <= cj.returned[1].equal_output_count
                   /\ cj.returned[1].confidence > 70

\* A CoinJoin is returned for a transaction whose most common value is not
\* the value of its first output.
C30_Witness ==
    /\ cj.pc = "returned"
    /\ cj.returned # <<>>
    /\ cj.returned[1].equal_output_value # cj.transaction.outputs[1]
    /\ cj.returned[1].equal_output_count = 3
    /\ cj.transaction.inputs = 5

----------------------------------------------------------------------------
(* PeelChainDetector.detect_peel_chain.  Confidences are in thousandths.    *)
(* pk.current_tx is the txid of current_tx; what the transaction holds is   *)
(* drawn when the loop analyses it, and pk.analysed keeps the transactions  *)
(* analysed, in order.                                                      *)

MaxHopsGiven == 2           \* largest max_hops of a call

\* The transactions a chain can run through, in time order.
PeelOrder == <<"p1", "p2", "p3">>
PeelPlace(txid) == CHOOSE i \in DOMAIN PeelOrder : PeelOrder[i] = txid

\* What an output of the transaction says of its spending: unspent, spent
\* with the spender unknown, or spent by the next transaction.
SpendingOf(txid) ==
    {[spent |-> FALSE, spending_txid |-> ""],
     [spent |-> TRUE, spending_txid |-> ""]} \cup
    {[spent |-> TRUE, spending_txid |-> PeelOrder[i]] :
        i \in {PeelPlace(txid) + 1} \cap DOMAIN PeelOrder}

\* The output values drawn: a payment under 5%, 10%, 20% and at 50% of the
\* total, either output the larger, a total of 0, and lists of one and of
\* three outputs.
PeelValues ==
    {<<1, 100>>, <<100, 1>>, <<1, 12>>, <<12, 100>>, <<1, 1>>, <<0, 0>>,
     <<1>>, <<1, 1, 100>>}

\* The transactions fetch_transaction_func can return for a txid.
\* change_detected is what identify_change_output says of it: None or the
\* output index of a ChangeDetectionResult.
PeelTransactions(txid) ==
    {[txid |-> txid, inputs |-> inputs,
      outputs |-> [i \in DOMAIN values |->
                      [value |-> values[i], spent |-> spending[i].spent,
                       spending_txid |-> spending[i].spending_txid]],
      change_detected |-> change_detected] :
        inputs \in 0..1, values \in PeelValues,
        spending \in [1..3 -> SpendingOf(txid)],
        change_detected \in {<<>>, <<0>>}}

MinConfidences == {700, 900}

\* self.min_peel_ratio = 0.05, self.max_peel_ratio = 0.95: a ratio
\* value / total_out is compared with n twentieths.
BelowRatio(value, total_out, twentieths) == 20 * value < twentieths * total_out
AboveRatio(value, total_out, twentieths) == 20 * value > twentieths * total_out

\* min(confidence * 1.1, 0.99)
Boost(confidence) == Min((confidence * 11) \div 10, 990)

\* PeelChainDetector._analyze_peel_hop: None is <<>>, a PeelChainHop is in
\* a one-element tuple; output indices count from 0.
AnalyzePeelHop(transaction, hop_number) ==
    IF Len(transaction.outputs) # 2 THEN <<>>
    ELSE IF transaction.inputs = 0 THEN <<>>
    ELSE
    LET value0 == transaction.outputs[1].value
        value1 == transaction.outputs[2].value
        total_out == value0 + value1
        payment_idx == IF value0 < value1 THEN 0 ELSE 1
        change_idx == 1 - payment_idx
        payment_value == transaction.outputs[payment_idx + 1].value
        change_value == transaction.outputs[change_idx + 1].value
        ratio_confidence ==
            IF /\ BelowRatio(payment_value, total_out, 1)
               /\ AboveRatio(change_value, total_out, 19)
            THEN 950
            ELSE IF BelowRatio(payment_value, total_out, 2) THEN 850
            ELSE IF BelowRatio(payment_value, total_out, 4) THEN 750
            ELSE 650
        confidence ==
            IF transaction.change_detected = <<change_idx>>
            THEN Boost(ratio_confidence) ELSE ratio_confidence
    IN  IF total_out = 0 THEN <<>>
        ELSE IF AboveRatio(payment_value, total_out, 10) THEN <<>>
        ELSE <<[hop_number |-> hop_number, txid |-> transaction.txid,
                payment_output_index |-> payment_idx,
                payment_value |-> payment_value,
                change_output_index |-> change_idx,
                change_value |-> change_value,
                confidence |-> confidence]>>

\* The mutant of the output followed: the payment output.
FollowedOutput_Payment(transaction, peel_hop) ==
    transaction.outputs[peel_hop.payment_output_index + 1]

\* current_tx.outputs[peel_hop.change_output_index]
FollowedOutput(transaction, peel_hop) ==
    transaction.outputs[peel_hop.change_output_index + 1]

\* detect_peel_chain up to the loop.
DetectPeelChain(max_hops, min_confidence) ==
    /\ pk.pc = "idle"
    /\ pk' = [PkIdle EXCEPT !.pc = "loop", !.current_tx = PeelOrder[1],
                            !.max_hops = max_hops,
                            !.min_confidence = min_confidence]
    /\ UNCHANGED beyondPeel

\* One turn of the while loop on a transaction, with whether the fetch of
\* the next transaction succeeds.
PeelTurnOn(s, transaction, fetched) ==
    LET peel_hop == AnalyzePeelHop(transaction, s.hop_number)
        seen == [s EXCEPT !.analysed = Append(@, transaction)]
    IN  IF peel_hop = <<>> \/ peel_hop[1].confidence < s.min_confidence
        THEN [seen EXCEPT !.pc = "done"]
        ELSE LET change_output == FollowedOutput(transaction, peel_hop[1])
                 hopped == [seen EXCEPT !.chain = Append(@, peel_hop[1]),
                                        !.hop_number = @ + 1]
             IN  IF ~change_output.spent \/ change_output.spending_txid = ""
                 THEN [hopped EXCEPT !.pc = "done"]
                 ELSE IF ~fetched THEN [hopped EXCEPT !.pc = "done"]
                 ELSE [hopped EXCEPT
                          !.current_tx = change_output.spending_txid]

\* while hop_number < max_hops: one turn, or the end of the loop.
PeelTurn ==
    /\ pk.pc = "loop"
    /\ IF pk.hop_number < pk.max_hops
       THEN \E transaction \in PeelTransactions(pk.current_tx),
               fetched \in BOOLEAN :
               pk' = PeelTurnOn(pk, transaction, fetched)
       ELSE pk' = [pk EXCEPT !.pc = "done"]
    /\ UNCHANGED beyondPeel

\* return chain
PeelReturn ==
    /\ pk.pc = "done"
    /\ pk' = PkIdle
    /\ UNCHANGED beyondPeel

InitPeel ==
    /\ PeelInit
    /\ BeyondPeelInit

NextPeel ==
    \/ \E max_hops \in 0..MaxHopsGiven, min_confidence \in MinConfidences :
          DetectPeelChain(max_hops, min_confidence)
    \/ PeelTurn
    \/ PeelReturn

SpecPeel == InitPeel /\ [][NextPeel]_vars

\* C28: the chain detect_peel_chain builds has at most max_hops hops, each
\* of confidence at least min_confidence, numbered 0, 1, 2, ... in chain
\* order, and each hop after the first is the transaction that spends the
\* change output of the hop before it, a later transaction.
C28_PeelChainHops ==
    /\ Len(pk.chain) <= pk.max_hops
    /\ \A k \in DOMAIN pk.chain :
          /\ pk.chain[k].confidence >= pk.min_confidence
          /\ pk.chain[k].hop_number = k - 1
          /\ pk.chain[k].txid = pk.analysed[k].txid
          /\ k > 1 =>
                LET before == pk.analysed[k - 1]
                    change ==
                        before.outputs[pk.chain[k - 1].change_output_index + 1]
                IN  /\ change.value >=
                           before.outputs[2 - pk.chain[k - 1].change_output_index].value
                    /\ change.spent
                    /\ change.spending_txid = pk.chain[k].txid
                    /\ PeelPlace(before.txid) < PeelPlace(pk.chain[k].txid)

\* A chain of max_hops = 2 hops is returned although the change of its
\* last hop is spent and the spender fetched, the first hop's payment
\* output being unspent.
C28_Witness ==
    /\ pk.pc = "done"
    /\ pk.max_hops = 2
    /\ Len(pk.chain) = 2
    /\ pk.current_tx = PeelOrder[3]
    /\ ~pk.analysed[1].outputs[pk.chain[1].payment_output_index + 1].spent

----------------------------------------------------------------------------
(* AddressClusterer.  An address is a string, modelled as the tuple of its  *)
(* characters (numbers, in character order); the empty tuple is the         *)
(* missing address of an input.  cl.last names the last call made, with     *)
(* its arguments, what it returned and whether the graph grew in it.  A     *)
(* clusterer is used as TraceOrchestrator uses its own: clustered from      *)
(* transaction by transaction, then built from, once.                       *)

MaxClusterInputs == 3       \* most inputs of a transaction given to it

\* The addresses drawn: "a", "ab", "b" and "bb".
AddressStrings == {<<1>>, <<1, 2>>, <<2>>, <<2, 2>>}

\* Python's order of strings: by the first character that differs, a
\* proper prefix first.
StrLess(x, y) ==
    \E k \in 1..(Len(y)) :
        /\ \A i \in 1..(k - 1) : i <= Len(x) /\ x[i] = y[i]
        /\ \/ k = Len(x) + 1
           \/ k <= Len(x) /\ x[k] < y[k]

\* The inputs of the transactions drawn: the address of each input, the
\* inputs listed in the order of their addresses.
ClusterInputs ==
    {inputs \in UNION {[1..n -> AddressStrings \cup {<<>>}] :
                           n \in 0..MaxClusterInputs} :
        \A i, j \in DOMAIN inputs : i < j => ~StrLess(inputs[j], inputs[i])}

\* sorted(addresses)
RECURSIVE Sorted(_)
Sorted(addresses) ==
    IF addresses = {} THEN <<>>
    ELSE LET least == CHOOSE x \in addresses :
                          \A y \in addresses \ {x} : StrLess(x, y)
         IN  <<least>> \o Sorted(addresses \ {least})

\* "".join(strings)
RECURSIVE Join(_)
Join(strings) ==
    IF strings = <<>> THEN <<>> ELSE Head(strings) \o Join(Tail(strings))

\* The mutant of the cluster id: the least address of the component.
GenerateClusterId_Least(addresses) == <<"cluster", Sorted(addresses)[1]>>

\* AddressClusterer._generate_cluster_id: "cluster_" and the first 16 hex
\* digits of the SHA-256 of the sorted addresses joined; the digest stands
\* for the string digested, two strings having two digests.
GenerateClusterId(addresses) == <<"cluster", Join(Sorted(addresses))>>

\* nx.connected_components: the component of a node
RECURSIVE Grown(_, _)
Grown(component, graph_edges) ==
    LET more == component \cup
                    UNION {e \in graph_edges : e \cap component # {}}
    IN  IF more = component THEN component ELSE Grown(more, graph_edges)

ConnectedComponents(graph_nodes, graph_edges) ==
    {Grown({x}, graph_edges) : x \in graph_nodes}

\* cluster_from_transaction: the edges it adds, one between every two
\* distinct input addresses.
ClusterEdges(inputs, is_coinjoin) ==
    LET input_addresses == Range(inputs) \ {<<>>}
    IN  IF is_coinjoin \/ Cardinality(input_addresses) < 2 THEN {}
        ELSE {{x, y} : x, y \in input_addresses} \
                 {{x} : x \in input_addresses}

\* AddressClusterer.cluster_from_transaction
ClusterFromTransaction(inputs, is_coinjoin) ==
    LET input_addresses == Range(inputs) \ {<<>>}
        edges == ClusterEdges(inputs, is_coinjoin)
    IN  /\ cl.last # "build_clusters"
        /\ cl' = [cl EXCEPT
                     !.graph_edges = @ \cup edges,
                     !.graph_nodes = @ \cup UNION edges,
                     !.last = "cluster_from_transaction",
                     !.inputs = inputs,
                     !.is_coinjoin = is_coinjoin,
                     !.grew = ~(edges \subseteq cl.graph_edges),
                     !.returned =
                         IF is_coinjoin \/ Cardinality(input_addresses) < 2
                         THEN <<>> ELSE <<input_addresses>>]
        /\ UNCHANGED beyondCluster

\* AddressClusterer.build_clusters: a ClusterInfo under each cluster id, the
\* one of the component met last where two components have one id (the
\* order of the nodes is the order of a set of strings, any order), and
\* each address of a component mapped to the component's id.
BuildClusters ==
    LET components ==
            {c \in ConnectedComponents(cl.graph_nodes, cl.graph_edges) :
                Cardinality(c) >= 2}
        ids == {GenerateClusterId(c) : c \in components}
    IN  /\ cl.last # "build_clusters"
        /\ \E met_last \in [ids -> components] :
              /\ \A id \in ids : GenerateClusterId(met_last[id]) = id
              /\ cl' = [cl EXCEPT
                           !.last = "build_clusters",
                           !.inputs = <<>>,
                           !.is_coinjoin = FALSE,
                           !.returned = <<>>,
                           !.grew = FALSE,
                           !.clusters =
                               {[cluster_id |-> id,
                                 addresses |-> met_last[id]] : id \in ids},
                           !.address_to_cluster =
                               [x \in UNION components |->
                                   GenerateClusterId(
                                       Grown({x}, cl.graph_edges))] @@ @]
        /\ UNCHANGED beyondCluster

\* AddressClusterer(): the next clusterer
NewClusterer ==
    /\ cl.last = "build_clusters"
    /\ cl' = ClIdle
    /\ UNCHANGED beyondCluster

InitCluster ==
    /\ ClusterInit
    /\ BeyondClusterInit

NextCluster ==
    \/ \E inputs \in ClusterInputs, is_coinjoin \in BOOLEAN :
          ClusterFromTransaction(inputs, is_coinjoin)
    \/ BuildClusters
    \/ NewClusterer

SpecCluster == InitCluster /\ [][NextCluster]_vars

\* Whether two addresses are joined by a chain of addresses, each spent
\* together with the next in a transaction clustered.
CoSpentChain(x, y) ==
    \E n \in 1..Cardinality(cl.graph_nodes) :
        \E path \in [1..n -> cl.graph_nodes] :
            /\ path[1] = x
            /\ path[n] = y
            /\ \A i \in 1..(n - 1) : {path[i], path[i + 1]} \in cl.graph_edges

\* What the last cluster_from_transaction call returned and added is what
\* the claim says of it.
CallAsClaimed ==
    cl.last = "cluster_from_transaction" =>
        LET distinct == {cl.inputs[i] : i \in DOMAIN cl.inputs} \ {<<>>}
        IN  IF cl.is_coinjoin \/ Cardinality(distinct) < 2
            THEN cl.returned = <<>> /\ ~cl.grew
            ELSE /\ cl.returned = <<distinct>>
                 /\ \A x, y \in distinct : CoSpentChain(x, y)

----------------------------------------------------------------------------
(* MempoolDataSource.get_address_summary and the compact-summary penalty    *)
(* of the endpoints.  What _perform_request returns, is_available and the   *)
(* answer of get_address_txids are inputs of the turns.                     *)

PenaltyCap == 3             \* highest penalty of an endpoint (10)
PenaltyDecay == 2           \* what a clean summary takes off the penalty

\* A count of chain_stats: <<>> for a missing key or null.
SummaryCounts == {<<>>, Some(0), Some(2)}

\* chain_stats of the JSON object an endpoint answers /address/{address}
\* with (an object without chain_stats is one with no count).
Summaries ==
    [tx_count : SummaryCounts, funded_txo_count : SummaryCounts,
     spent_txo_count : SummaryCounts]

\* A detection that takes only a missing count for a sign of compact mode.
SummaryIsCompactMode_MissingOnly(data) ==
    IF OrElse(data.tx_count, 0) <= 0 THEN FALSE
    ELSE data.funded_txo_count = <<>> /\ data.spent_txo_count = <<>>

\* _summary_is_compact_mode
SummaryIsCompactMode(data) ==
    LET tx_count == OrElse(data.tx_count, 0)
        funded == data.funded_txo_count
        spent == data.spent_txo_count
        funded_zero == funded = <<>> \/ funded[1] = 0
        spent_zero == spent = <<>> \/ spent[1] = 0
    IN  IF tx_count <= 0 THEN FALSE ELSE funded_zero /\ spent_zero

\* _increase_compact_penalty (an endpoint without an entry has penalty 0)
IncreaseCompactPenalty(penalty, endpoint_name) ==
    [penalty EXCEPT ![endpoint_name] = Min(@ + 1, PenaltyCap)]

\* _clear_compact_penalty
ClearCompactPenalty(penalty, endpoint_name) ==
    [penalty EXCEPT ![endpoint_name] = Max(0, @ - PenaltyDecay)]

\* The place of a name in the order of the strings.
NameRank(name) == CHOOSE i \in 1..Len(AllEndpoints) : AllEndpoints[i] = name

\* (penalty, priority, name) of a is less than that of b
PenaltyKeyLess(penalty, a, b) ==
    IF penalty[a] # penalty[b] THEN penalty[a] < penalty[b]
    ELSE IF Priority(a) # Priority(b) THEN Priority(a) < Priority(b)
    ELSE NameRank(a) < NameRank(b)

\* eligible, after eligible.sort(key=(penalty, priority, name))
SortedEligible(penalty, min_priority) ==
    LET eligible == {n \in SummaryNames : Priority(n) >= min_priority}
    IN  CHOOSE q \in [1..Cardinality(eligible) -> eligible] :
            \A i, j \in DOMAIN q : i < j => PenaltyKeyLess(penalty, q[i], q[j])

\* _try_endpoints: on to the next endpoint; after the last one None is
\* returned
SummaryContinue(s) ==
    IF s.at >= Len(s.order) THEN [s EXCEPT !.pc = "done", !.result = <<>>]
    ELSE [s EXCEPT !.at = @ + 1]

\* get_address_summary up to the first endpoint
GetAddressSummary(min_priority) ==
    /\ sm.pc = "idle"
    /\ sm' = [SmIdle EXCEPT
                !.pc = "try",
                !.order = SortedEligible(sm.penalty, min_priority),
                !.at = 1,
                !.penalty = sm.penalty]
    /\ UNCHANGED beyondSummary

\* _try_endpoints: one turn of the loop, for the endpoint at the head of
\* what is left of the order.  reply is what _perform_request returns (<<>>
\* for None), history what get_address_txids(max_results=1) finds if it is
\* asked.
SummaryTry(available, reply, history) ==
    /\ sm.pc = "try"
    /\ ~available => reply = <<>>
    /\ LET name == sm.order[sm.at]
           seen == [sm EXCEPT !.visited = name, !.data = reply]
           hint == IF sm.history_hint = <<>> THEN history
                   ELSE sm.history_hint[1]
           returned(s) ==
               [s EXCEPT !.pc = "done",
                         !.result = reply,
                         !.penalty = ClearCompactPenalty(@, name)]
       IN  sm' =
             IF ~available \/ reply = <<>> THEN SummaryContinue(seen)
             ELSE IF SummaryIsCompactMode(reply[1])
             THEN SummaryContinue(
                      [seen EXCEPT
                          !.penalty = IncreaseCompactPenalty(@, name),
                          !.compact_from = @ \cup {name}])
             ELSE IF OrElse(reply[1].tx_count, 0) = 0
             THEN IF hint
                  THEN SummaryContinue(
                           [seen EXCEPT
                               !.history_hint = Some(hint),
                               !.penalty = IncreaseCompactPenalty(@, name)])
                  ELSE returned([seen EXCEPT !.history_hint = Some(hint)])
             ELSE returned(seen)
    /\ UNCHANGED beyondSummary

\* The caller has the summary or None; the penalties stay.
SummaryReturn ==
    /\ sm.pc = "done"
    /\ sm' = [SmIdle EXCEPT !.penalty = sm.penalty]
    /\ UNCHANGED beyondSummary

InitSummary ==
    /\ SummaryInit
    /\ BeyondSummaryInit

NextSummary ==
    \/ \E min_priority \in 0..2 : GetAddressSummary(min_priority)
    \/ \E available \in BOOLEAN,
          reply \in {<<>>} \cup {Some(d) : d \in Summaries},
          history \in BOOLEAN :
          SummaryTry(available, reply, history)
    \/ SummaryReturn

SpecSummary == InitSummary /\ [][NextSummary]_vars

----------------------------------------------------------------------------
(* Claim on get_address_summary (SpecSummary)                               *)

\* A compact summary as the claim describes it: chain tx_count > 0 with
\* funded_txo_count and spent_txo_count both zero or missing.
CompactAsClaimed(data) ==
    LET ZeroOrMissing(count) == count = <<>> \/ count[1] = 0
    IN  /\ data.tx_count # <<>>
        /\ data.tx_count[1] > 0
        /\ ZeroOrMissing(data.funded_txo_count)
        /\ ZeroOrMissing(data.spent_txo_count)

\* C37: get_address_summary never returns a compact summary; a compact
\* response raises the penalty of its endpoint by 1, to at most the cap
\* (10), and the endpoint next in the order of (penalty, priority, name)
\* taken at the start of the call is turned to; a returned response lowers
\* the penalty of its endpoint by 2, to at least 0; no other penalty
\* changes.
C37_CompactNeverReturnedPenaltyKept ==
    /\ [](/\ \A n \in SummaryNames : sm.penalty[n] \in 0..PenaltyCap
          /\ sm.result # <<>> => ~CompactAsClaimed(sm.result[1]))
    /\ [][/\ (sm.pc = "idle" /\ sm'.pc = "try") =>
                /\ \E p \in 0..2 :
                      Range(sm'.order) =
                         {n \in SummaryNames : Priority(n) >= p}
                /\ \A i, j \in DOMAIN sm'.order :
                      i < j =>
                         PenaltyKeyLess(sm.penalty, sm'.order[i], sm'.order[j])
          /\ sm.pc = "try" =>
                LET name == sm.order[sm.at]
                    others == SummaryNames \ {name}
                    compact == /\ sm'.data # <<>>
                               /\ CompactAsClaimed(sm'.data[1])
                IN  /\ sm'.order = sm.order
                    /\ sm'.visited = name
                    /\ \A n \in others : sm'.penalty[n] = sm.penalty[n]
                    /\ compact =>
                          /\ sm'.penalty[name] =
                                Min(sm.penalty[name] + 1, PenaltyCap)
                          /\ sm'.result = <<>>
                          /\ sm'.pc = "try" => sm'.at = sm.at + 1
                          /\ sm'.pc = "done" => sm.at = Len(sm.order)
                    /\ sm'.result # <<>> =>
                          /\ sm'.result = sm'.data
                          /\ sm'.penalty[name] =
                                Max(0, sm.penalty[name] - PenaltyDecay)]_vars

\* C37: a call has returned the summary of an endpoint after compact
\* answers of the endpoints before it, one of which is at the highest
\* penalty, and the penalty of the endpoint it returns from came down.
C37_Witness ==
    /\ sm.pc = "done"
    /\ sm.result # <<>>
    /\ sm.at = Len(sm.order)
    /\ Cardinality(sm.compact_from) = Len(sm.order) - 1
    /\ Len(sm.order) >= 2
    /\ \E n \in sm.compact_from : sm.penalty[n] = PenaltyCap
    /\ sm.penalty[sm.visited] = 1

============================================================================
